---- MODULE Spec2Model ----
(***************************************************************************)
(* Order-processing core of the pantry management server: ordering         *)
(* sessions (SessionService), order creation and status updates            *)
(* (OrderService), stock mutation (ItemService.updateStock) and payment    *)
(* settlement (PaymentService).  Every handler is an async function; each  *)
(* `await` on the relational store, the cache or the payment provider is   *)
(* a point where other requests interleave, so a handler is modelled as    *)
(* one action per awaited call, with the handler's locals kept in the      *)
(* request record of the process that runs it.                             *)
(* Money is modelled in whole currency units (all prices and coupon        *)
(* values are multiples of 10, so percentage discounts are exact).         *)
(***************************************************************************)
EXTENDS Integers, Sequences, FiniteSets, TLC

(* ------------------------------ bounds -------------------------------- *)
MaxOrders == 2
MaxSessions == 2
MaxLines == 2
MaxQty == 2
MaxStock == 2
MaxTime == 3
MaxTtl == 2
MaxRefunds == 2
MaxUpdates == 2

(* ---------------------------- static data ----------------------------- *)
NULL == -1000

Orgs == {"o1", "o2", "o3", "o4"}
Users == {"u1", "u2"}
NoUser == "anon"
ItemIds == {"i1", "i2"}
CouponIds == {"c1"}
QrCodes == {"q1", "q2", "q3", "q4", "q5"}
Prices == {50, 80}
Ttls == 1..MaxTtl

CreateProcs == {"a", "b"}
SessProcs == {"s"}
FindProcs == {"f"}
CloseProcs == {"x"}
StatusProcs == {"m", "n"}
PayProcs == {"p"}
\* the payment requests that can be in flight at the same time
PayCallers == {"p", "r"}
ValidateProcs == {"v"}

\* space rows: the QR code of a space resolves the space and its organization
spaces ==
  [q \in QrCodes |->
     CASE q = "q1" -> [organizationId |-> "o1", isActive |-> TRUE]
       [] q = "q2" -> [organizationId |-> "o2", isActive |-> TRUE]
       [] q = "q4" -> [organizationId |-> "o3", isActive |-> TRUE]
       [] q = "q5" -> [organizationId |-> "o4", isActive |-> TRUE]
       [] OTHER    -> [organizationId |-> "o1", isActive |-> FALSE]]

\* organization rows: o1 settles through the hosted provider, o2 waives payment
\* and has no provider set, o3 requires payment through a provider of its own,
\* o4 requires payment through the provider that is not implemented
organizations ==
  [o \in Orgs |->
     CASE o = "o1" -> [requirePayment |-> TRUE, paymentProvider |-> "razorpay"]
       [] o = "o2" -> [requirePayment |-> FALSE, paymentProvider |-> "none"]
       [] o = "o3" -> [requirePayment |-> TRUE, paymentProvider |-> "custom"]
       [] OTHER    -> [requirePayment |-> TRUE, paymentProvider |-> "stripe"]]

\* the organization that owns an item (through its category)
itemOrg == [i \in ItemIds |-> "o1"]

OrderStatuses == {"PENDING", "ACCEPTED", "PREPARING", "READY", "DELIVERED", "CANCELLED"}
\* updateOrderStatusSchema: the statuses a status update may ask for
updateOrderStatusSchema == {"ACCEPTED", "PREPARING", "READY", "DELIVERED", "CANCELLED"}

\* String.prototype.toUpperCase on the coupon codes a client may send
toUpperCase(code) ==
  CASE code = "welcome" -> "WELCOME"
    [] code = "Welcome" -> "WELCOME"
    [] OTHER -> code

NoCode == ""
CouponCodes == {NoCode, "welcome", "BOGUS"}

(* ------------------------------- state -------------------------------- *)
VARIABLES
  now,        \* the wall clock (new Date(), Date.now())
  sessions,   \* session table: sequence of rows, id = index
  cache,      \* redis keys session:<id>: sequence of deadlines (NULL = no key)
  items,      \* item table
  coupons,    \* coupon table
  orders,     \* order table with its order lines: sequence of rows, id = index
  payments,   \* payment table, one row per order at most (NULL-status = no row)
  events,     \* messages published on the orders:<org> channels
  provider,   \* the payment provider's side: orders created, refunds executed
  stock0,     \* history: the stock of every item when the catalog was set up
  creq,       \* OrderService.create requests in flight
  sreq,       \* SessionService.create requests in flight
  freq,       \* SessionService.findById / getMenu requests in flight
  xreq,       \* SessionService.close requests in flight
  ureq,       \* OrderService.updateStatus requests in flight
  preq,       \* PaymentService requests in flight
  vreq        \* CouponService.validate requests in flight

vars == <<now, sessions, cache, items, coupons, orders, payments, events, provider,
          stock0,
          creq, sreq, freq, xreq, ureq, preq, vreq>>

dbVars == <<sessions, cache, items, coupons, orders, payments, events, provider, stock0>>

(* ------------------------------ helpers ------------------------------- *)
Max(a, b) == IF a >= b THEN a ELSE b

RECURSIVE SumSeq(_)
SumSeq(s) == IF s = <<>> THEN 0 ELSE Head(s) + SumSeq(Tail(s))

\* sequences of 1..MaxLines order lines (orderItemSchema, createOrderSchema)
LineInputs == [itemId : ItemIds, quantity : 1..MaxQty]
ItemLists == UNION {[1..n -> LineInputs] : n \in 1..MaxLines}

IdleCreate ==
  [pc |-> "idle", sessionId |-> 0, lines |-> <<>>, couponCode |-> NoCode, userId |-> NoUser,
   org |-> "o1", idx |-> 0, subtotal |-> 0, orderItems |-> <<>>, discount |-> 0,
   couponId |-> "", total |-> 0, orderCount |-> 0, orderId |-> 0, newStock |-> 0,
   err |-> ""]

\* a request that has returned keeps only its outcome
Returned(r, pcv, e) ==
  [IdleCreate EXCEPT !.pc = pcv, !.err = e, !.sessionId = r.sessionId,
                     !.orderId = r.orderId]

\* an order that has no payment row
NoPayment ==
  [status |-> "NONE", provider |-> "", amount |-> 0, externalOrderId |-> "",
   externalId |-> "", signature |-> <<>>, refundedAmount |-> 0, refundedAt |-> NULL]

IdleSess == [pc |-> "idle", sid |-> 0, ttl |-> 0, org |-> "o1", userId |-> NoUser, err |-> ""]

IdleFind ==
  [pc |-> "idle", kind |-> "get", sid |-> 0, err |-> "", retStatus |-> "", retExpiresAt |-> 0,
   retAt |-> 0, closedAtStart |-> FALSE]

IdleClose == [pc |-> "idle", sid |-> 0, userId |-> NoUser, err |-> ""]

(* --------------------------- SessionService --------------------------- *)
\* new Date() moves on
Tick ==
  /\ now < MaxTime
  /\ now' = now + 1
  /\ UNCHANGED <<dbVars, creq, sreq, freq, xreq, ureq, preq, vreq>>

\* redis.get(session:<id>) finds a key: one was set and has not timed out
CachePresent(id) == id \in 1..Len(cache) /\ cache[id] # NULL /\ now < cache[id]

\* SessionService.create up to the row insert: resolve the space, compute
\* expiresAt from the clock, insert the session
SessionCreateInsert(p, qr, ttl, uid) ==
  /\ sreq[p].pc = "idle"
  /\ IF ~spaces[qr].isActive
       THEN /\ sreq' = [sreq EXCEPT ![p] = [IdleSess EXCEPT !.pc = "failed", !.err = "NotFound"]]
            /\ UNCHANGED <<sessions, cache>>
       ELSE /\ Len(sessions) < MaxSessions
            /\ sessions' = Append(sessions,
                 [organizationId |-> spaces[qr].organizationId, userId |-> uid,
                  expiresAt |-> now + ttl, status |-> "ACTIVE"])
            /\ cache' = Append(cache, NULL)
            /\ sreq' = [sreq EXCEPT ![p] = [IdleSess EXCEPT !.pc = "setex",
                          !.sid = Len(sessions) + 1, !.ttl = ttl,
                          !.org = spaces[qr].organizationId, !.userId = uid]]
  /\ UNCHANGED <<now, items, coupons, orders, payments, events, provider, stock0,
                 creq, freq, xreq, ureq, preq, vreq>>

\* redis.setex(session:<id>, durationMinutes * 60, ...): the key lives for the
\* session's duration counted from this call, then the session is returned
SessionCreateCache(p) ==
  /\ sreq[p].pc = "setex"
  /\ cache' = [cache EXCEPT ![sreq[p].sid] = now + sreq[p].ttl]
  /\ sreq' = [sreq EXCEPT ![p].pc = "done"]
  /\ UNCHANGED <<now, sessions, items, coupons, orders, payments, events, provider, stock0,
                 creq, freq, xreq, ureq, preq, vreq>>

\* the response is sent; the handler can serve the next request
SessionCreateReturn(p) ==
  /\ sreq[p].pc \in {"done", "failed"}
  /\ sreq' = [sreq EXCEPT ![p] = IdleSess]
  /\ UNCHANGED <<now, dbVars, creq, freq, xreq, ureq, preq, vreq>>

\* SessionService.findById, the cache lookup (getMenu starts with the same call)
FindCache(p, kind, id) ==
  /\ freq[p].pc = "idle"
  /\ freq' = [freq EXCEPT ![p] =
        [IdleFind EXCEPT !.pc = IF CachePresent(id) THEN "dbHit" ELSE "db",
                         !.kind = kind, !.sid = id,
                         !.closedAtStart = (id \in 1..Len(sessions)
                                              /\ sessions[id].status = "CLOSED")]]
  /\ UNCHANGED <<now, dbVars, creq, sreq, xreq, ureq, preq, vreq>>

\* what findById / getMenu do once the session row is in hand
FindReturn(r, session) ==
  [r EXCEPT !.pc = IF r.kind = "menu" THEN "categories" ELSE "done",
            !.retStatus = session.status, !.retExpiresAt = session.expiresAt,
            !.retAt = now]

\* SessionService.findById after a cache hit: the row is read and returned
FindDbAfterHit(p) ==
  /\ freq[p].pc = "dbHit"
  /\ LET r == freq[p]
     IN IF r.sid \in 1..Len(sessions)
          THEN freq' = [freq EXCEPT ![p] = FindReturn(r, sessions[r.sid])]
          ELSE freq' = [freq EXCEPT ![p].pc = "db"]
  /\ UNCHANGED <<now, dbVars, creq, sreq, xreq, ureq, preq, vreq>>

\* the expiry check of SessionService.findById
FindExpired(session) == session.expiresAt < now \/ session.status # "ACTIVE"

\* SessionService.findById without a cache hit: the row is read and checked
FindDb(p) ==
  /\ freq[p].pc = "db"
  /\ LET r == freq[p]
     IN IF r.sid \notin 1..Len(sessions)
          THEN freq' = [freq EXCEPT ![p] = [r EXCEPT !.pc = "failed", !.err = "NotFound"]]
          ELSE IF FindExpired(sessions[r.sid])
          THEN freq' = [freq EXCEPT ![p] = [r EXCEPT !.pc = "failed", !.err = "BadRequest"]]
          ELSE freq' = [freq EXCEPT ![p] = FindReturn(r, sessions[r.sid])]
  /\ UNCHANGED <<now, dbVars, creq, sreq, xreq, ureq, preq, vreq>>

\* SessionService.getMenu: prisma.category.findMany, a read of the catalog
MenuCategories(p) ==
  /\ freq[p].pc = "categories"
  /\ freq' = [freq EXCEPT ![p].pc = "done"]
  /\ UNCHANGED <<now, dbVars, creq, sreq, xreq, ureq, preq, vreq>>

\* the response is sent; the handler can serve the next request
FindDone(p) ==
  /\ freq[p].pc \in {"done", "failed"}
  /\ freq' = [freq EXCEPT ![p] = IdleFind]
  /\ UNCHANGED <<now, dbVars, creq, sreq, xreq, ureq, preq, vreq>>

\* (mutant) close without the owner check
OwnerUnchecked(session, userId) == FALSE

\* SessionService.close: userId && session.userId !== userId
NotOwner(session, userId) == userId # NoUser /\ session.userId # userId

\* SessionService.close: the row lookup and the owner check
CloseBegin(p, id, uid) ==
  /\ xreq[p].pc = "idle"
  /\ LET r == [IdleClose EXCEPT !.sid = id, !.userId = uid]
     IN IF id \notin 1..Len(sessions)
          THEN xreq' = [xreq EXCEPT ![p] = [r EXCEPT !.pc = "failed", !.err = "NotFound"]]
          ELSE IF NotOwner(sessions[id], uid)
          THEN xreq' = [xreq EXCEPT ![p] = [r EXCEPT !.pc = "failed", !.err = "Forbidden"]]
          ELSE xreq' = [xreq EXCEPT ![p] = [r EXCEPT !.pc = "del"]]
  /\ UNCHANGED <<now, dbVars, creq, sreq, freq, ureq, preq, vreq>>

\* (mutant) close without the cache eviction
CloseCacheKept(p) ==
  /\ xreq[p].pc = "del"
  /\ xreq' = [xreq EXCEPT ![p].pc = "update"]
  /\ UNCHANGED <<now, dbVars, creq, sreq, freq, ureq, preq, vreq>>

\* SessionService.close: redis.del(session:<id>)
CloseCacheDel(p) ==
  /\ xreq[p].pc = "del"
  /\ cache' = [cache EXCEPT ![xreq[p].sid] = NULL]
  /\ xreq' = [xreq EXCEPT ![p].pc = "update"]
  /\ UNCHANGED <<now, sessions, items, coupons, orders, payments, events, provider, stock0,
                 creq, sreq, freq, ureq, preq, vreq>>

\* SessionService.close: prisma.session.update to CLOSED
CloseUpdate(p) ==
  /\ xreq[p].pc = "update"
  /\ sessions' = [sessions EXCEPT ![xreq[p].sid].status = "CLOSED"]
  /\ xreq' = [xreq EXCEPT ![p].pc = "done"]
  /\ UNCHANGED <<now, cache, items, coupons, orders, payments, events, provider, stock0,
                 creq, sreq, freq, ureq, preq, vreq>>

\* the response is sent; the handler can serve the next request
CloseReturn(p) ==
  /\ xreq[p].pc \in {"done", "failed"}
  /\ xreq' = [xreq EXCEPT ![p] = IdleClose]
  /\ UNCHANGED <<now, dbVars, creq, sreq, freq, ureq, preq, vreq>>

(* ---------------------------- ItemService ----------------------------- *)
\* ItemService.findById: the item row (every id of ItemIds has a row)
ItemFindById(id) == items[id]

\* ItemService.update with a price edit by staff of organization org
ItemUpdatePrice(id, org, price) ==
  /\ itemOrg[id] = org
  /\ items' = [items EXCEPT ![id].price = price]
  /\ UNCHANGED <<now, sessions, cache, coupons, orders, payments, events, provider, stock0,
                 creq, sreq, freq, xreq, ureq, preq, vreq>>

\* (mutant) the new stock without the clamp at 0
NewStockUnclamped(stock, quantity) == stock + quantity

\* ItemService.updateStock: the stock it writes for a finite-stock item
NewStock(stock, quantity) == Max(0, stock + quantity)

(* ------------------------ OrderService.create ------------------------- *)
\* the session check of OrderService.create (its own lookup, not findById)
CreateSessionValid(sid) ==
  /\ sid \in 1..Len(sessions)
  /\ sessions[sid].status = "ACTIVE"
  /\ ~(sessions[sid].expiresAt < now)

\* prisma.session.findUnique and the session check
CreateBegin(p, sid, lines, code, uid) ==
  /\ creq[p].pc = "idle"
  /\ Len(orders) + Cardinality({q \in CreateProcs :
        creq[q].pc \in {"items", "coupon", "count", "insert"}}) < MaxOrders
  /\ LET r == [IdleCreate EXCEPT !.sessionId = sid, !.lines = lines, !.couponCode = code,
                                 !.userId = uid]
     IN IF CreateSessionValid(sid)
          THEN creq' = [creq EXCEPT ![p] = [r EXCEPT !.pc = "items", !.idx = 1,
                                              !.org = sessions[sid].organizationId]]
          ELSE creq' = [creq EXCEPT ![p] = Returned(r, "failed", "BadRequest")]
  /\ UNCHANGED <<now, dbVars, sreq, freq, xreq, ureq, preq, vreq>>

\* (mutant) the unit price without the free-item rule
UnitPriceIgnoringFree(item) == item.price

\* the unit price snapshotted for a line
UnitPrice(item) == IF item.isFree THEN 0 ELSE item.price

\* one turn of the pricing loop: ItemService.findById, the availability and
\* stock checks, the price snapshot
CreateReadItem(p) ==
  /\ creq[p].pc = "items"
  /\ LET r == creq[p]
         line == r.lines[r.idx]
         item == ItemFindById(line.itemId)
         unitPrice == UnitPrice(item)
         total == unitPrice * line.quantity
     IN IF ~item.isAvailable \/ ~item.isActive
          THEN creq' = [creq EXCEPT ![p] = Returned(r, "failed", "BadRequest")]
          ELSE IF item.stock # NULL /\ item.stock < line.quantity
          THEN creq' = [creq EXCEPT ![p] = Returned(r, "failed", "BadRequest")]
          ELSE creq' = [creq EXCEPT ![p] =
                 [r EXCEPT !.subtotal = r.subtotal + total,
                           !.orderItems = Append(r.orderItems,
                              [itemId |-> line.itemId, quantity |-> line.quantity,
                               unitPrice |-> unitPrice, total |-> total]),
                           !.idx = r.idx + 1,
                           !.pc = IF r.idx = Len(r.lines) THEN "coupon" ELSE "items"]]
  /\ UNCHANGED <<now, dbVars, sreq, freq, xreq, ureq, preq, vreq>>

\* prisma.coupon.findUnique on (code, organizationId): the matching ids
CouponLookup(code, org) ==
  {c \in CouponIds : coupons[c].code = code /\ coupons[c].organizationId = org}

\* the discount OrderService.create computes for an accepted coupon
CreateDiscount(coupon, subtotal) ==
  IF coupon.type = "PERCENTAGE"
    THEN LET d == (subtotal * coupon.value) \div 100
         IN IF coupon.maxDiscount # NULL /\ d > coupon.maxDiscount
              THEN coupon.maxDiscount ELSE d
    ELSE coupon.value

\* the coupon block of OrderService.create and the total
CreateCoupon(p) ==
  /\ creq[p].pc = "coupon"
  /\ LET r == creq[p]
         found == IF r.couponCode # NoCode
                    THEN CouponLookup(toUpperCase(r.couponCode), r.org) ELSE {}
     IN IF found = {}
          THEN creq' = [creq EXCEPT ![p] = [r EXCEPT !.pc = "count", !.total = r.subtotal]]
          ELSE LET id == CHOOSE c \in found : TRUE
                   coupon == coupons[id]
               IN IF coupon.isActive /\ (coupon.validUntil = NULL \/ coupon.validUntil > now)
                    THEN IF coupon.minOrderAmount # NULL /\ r.subtotal < coupon.minOrderAmount
                           THEN creq' = [creq EXCEPT ![p] = Returned(r, "failed", "BadRequest")]
                         ELSE IF coupon.usageLimit # NULL /\ coupon.usageCount >= coupon.usageLimit
                           THEN creq' = [creq EXCEPT ![p] = Returned(r, "failed", "BadRequest")]
                         ELSE LET d == CreateDiscount(coupon, r.subtotal)
                              IN creq' = [creq EXCEPT ![p] =
                                   [r EXCEPT !.pc = "count", !.discount = d, !.couponId = id,
                                             !.total = r.subtotal - d]]
                    ELSE creq' = [creq EXCEPT ![p] =
                           [r EXCEPT !.pc = "count", !.total = r.subtotal]]
  /\ UNCHANGED <<now, dbVars, sreq, freq, xreq, ureq, preq, vreq>>

\* prisma.order.count for the organization
CreateCount(p) ==
  /\ creq[p].pc = "count"
  /\ creq' = [creq EXCEPT ![p].pc = "insert",
                          ![p].orderCount = Cardinality({o \in 1..Len(orders) :
                               orders[o].organizationId = creq[p].org})]
  /\ UNCHANGED <<now, dbVars, sreq, freq, xreq, ureq, preq, vreq>>

\* prisma.order.create: the order row and its lines
CreateInsert(p) ==
  /\ creq[p].pc = "insert"
  /\ LET r == creq[p]
     IN /\ orders' = Append(orders,
              [orderNumber |-> r.orderCount + 1, organizationId |-> r.org,
               sessionId |-> r.sessionId, userId |-> r.userId, couponId |-> r.couponId,
               subtotal |-> r.subtotal, discount |-> r.discount, total |-> r.total,
               items |-> r.orderItems, status |-> "PENDING", placedAt |-> now,
               acceptedAt |-> NULL, preparingAt |-> NULL, readyAt |-> NULL,
               deliveredAt |-> NULL, cancelledAt |-> NULL])
        /\ payments' = Append(payments, NoPayment)
        /\ creq' = [creq EXCEPT ![p] = [r EXCEPT !.pc = "stockRead", !.idx = 1,
                                          !.orderId = Len(orders) + 1]]
  /\ UNCHANGED <<now, sessions, cache, items, coupons, events, provider, stock0,
                 sreq, freq, xreq, ureq, preq, vreq>>

\* (mutant) the handler publishes without the coupon usage increment
AfterStockSkippingCoupon(r) ==
  IF r.idx < Len(r.orderItems) THEN [r EXCEPT !.pc = "stockRead", !.idx = r.idx + 1]
  ELSE [r EXCEPT !.pc = "publish"]

\* where the handler goes after the stock of line idx has been dealt with
AfterStock(r) ==
  IF r.idx < Len(r.orderItems) THEN [r EXCEPT !.pc = "stockRead", !.idx = r.idx + 1]
  ELSE IF r.couponId # "" THEN [r EXCEPT !.pc = "couponInc"]
  ELSE [r EXCEPT !.pc = "publish"]

\* ItemService.updateStock, first half: findById, the unlimited-stock return
\* and the new stock computed from the row just read
CreateStockRead(p) ==
  /\ creq[p].pc = "stockRead"
  /\ LET r == creq[p]
         line == r.orderItems[r.idx]
         item == ItemFindById(line.itemId)
     IN IF item.stock = NULL
          THEN creq' = [creq EXCEPT ![p] = AfterStock(r)]
          ELSE creq' = [creq EXCEPT ![p] =
                 [r EXCEPT !.pc = "stockWrite",
                           !.newStock = NewStock(item.stock, 0 - line.quantity)]]
  /\ UNCHANGED <<now, dbVars, sreq, freq, xreq, ureq, preq, vreq>>

\* ItemService.updateStock, second half: prisma.item.update
CreateStockWrite(p) ==
  /\ creq[p].pc = "stockWrite"
  /\ LET r == creq[p]
         id == r.orderItems[r.idx].itemId
     IN /\ items' = [items EXCEPT ![id].stock = r.newStock,
                                  ![id].isAvailable = (r.newStock > 0)]
        /\ creq' = [creq EXCEPT ![p] = AfterStock(r)]
  /\ UNCHANGED <<now, sessions, cache, coupons, orders, payments, events, provider, stock0,
                 sreq, freq, xreq, ureq, preq, vreq>>

\* prisma.coupon.update with usageCount: { increment: 1 }
CreateCouponInc(p) ==
  /\ creq[p].pc = "couponInc"
  /\ coupons' = [coupons EXCEPT ![creq[p].couponId].usageCount = @ + 1]
  /\ creq' = [creq EXCEPT ![p].pc = "publish"]
  /\ UNCHANGED <<now, sessions, cache, items, orders, payments, events, provider, stock0,
                 sreq, freq, xreq, ureq, preq, vreq>>

\* redis.publish of NEW_ORDER on orders:<org>, then the order is returned
CreatePublish(p) ==
  /\ creq[p].pc = "publish"
  /\ events' = Append(events, [type |-> "NEW_ORDER", channel |-> creq[p].org,
                               orderId |-> creq[p].orderId, status |-> "PENDING"])
  /\ creq' = [creq EXCEPT ![p] = Returned(creq[p], "done", "")]
  /\ UNCHANGED <<now, sessions, cache, items, coupons, orders, payments, provider, stock0,
                 sreq, freq, xreq, ureq, preq, vreq>>

\* the response is sent; the handler can serve the next request
CreateReturn(p) ==
  /\ creq[p].pc \in {"done", "failed"}
  /\ creq' = [creq EXCEPT ![p] = IdleCreate]
  /\ UNCHANGED <<now, dbVars, sreq, freq, xreq, ureq, preq, vreq>>

(* --------------------- OrderService.updateStatus ---------------------- *)
IdleUpdate ==
  [pc |-> "idle", id |-> 0, status |-> "", orgId |-> "", seen |-> "", at |-> 0, err |-> ""]

\* (mutant) updateStatus without the organization check
OrgCheckSkipped(order, orgId) == FALSE

\* the organization check of updateStatus
OrgMismatch(order, orgId) == order.organizationId # orgId

\* OrderService.findById and the organization check; `now` is taken here and
\* the row read (its status) stays in the handler's `order`; a request that
\* throws keeps only the arguments it was made with
UpdateBegin(p, id, status, orgId) ==
  /\ ureq[p].pc = "idle"
  /\ Cardinality({k \in 1..Len(events) : events[k].type = "STATUS_UPDATE"})
       + Cardinality({q \in StatusProcs : ureq[q].pc \in {"update", "publish"}}) < MaxUpdates
  /\ LET r == [IdleUpdate EXCEPT !.id = id, !.status = status, !.orgId = orgId]
         f == [IdleUpdate EXCEPT !.pc = "failed", !.id = id, !.orgId = orgId]
     IN IF id \notin 1..Len(orders)
          THEN ureq' = [ureq EXCEPT ![p] = [f EXCEPT !.err = "NotFound"]]
          ELSE IF OrgMismatch(orders[id], orgId)
          THEN ureq' = [ureq EXCEPT ![p] = [f EXCEPT !.err = "Forbidden"]]
          ELSE ureq' = [ureq EXCEPT ![p] = [r EXCEPT !.pc = "update", !.at = now,
                                              !.seen = orders[id].status]]
  /\ UNCHANGED <<now, dbVars, creq, sreq, freq, xreq, preq, vreq>>

\* the data of prisma.order.update in updateStatus: the status and the one
\* timestamp of statusTimestamps[status]
StatusData(order, status, at) ==
  CASE status = "ACCEPTED"  -> [order EXCEPT !.status = status, !.acceptedAt = at]
    [] status = "PREPARING" -> [order EXCEPT !.status = status, !.preparingAt = at]
    [] status = "READY"     -> [order EXCEPT !.status = status, !.readyAt = at]
    [] status = "DELIVERED" -> [order EXCEPT !.status = status, !.deliveredAt = at]
    [] status = "CANCELLED" -> [order EXCEPT !.status = status, !.cancelledAt = at]
    [] OTHER -> [order EXCEPT !.status = status]

\* prisma.order.update of updateStatus
UpdateWrite(p) ==
  /\ ureq[p].pc = "update"
  /\ orders' = [orders EXCEPT ![ureq[p].id] = StatusData(@, ureq[p].status, ureq[p].at)]
  /\ ureq' = [ureq EXCEPT ![p].pc = "publish"]
  /\ UNCHANGED <<now, sessions, cache, items, coupons, payments, events, provider, stock0,
                 creq, sreq, freq, xreq, preq, vreq>>

\* redis.publish of STATUS_UPDATE with the updated row, then it is returned
UpdatePublish(p) ==
  /\ ureq[p].pc = "publish"
  /\ events' = Append(events, [type |-> "STATUS_UPDATE", channel |-> ureq[p].orgId,
                               orderId |-> ureq[p].id, status |-> ureq[p].status])
  /\ ureq' = [ureq EXCEPT ![p].pc = "done"]
  /\ UNCHANGED <<now, sessions, cache, items, coupons, orders, payments, provider, stock0,
                 creq, sreq, freq, xreq, preq, vreq>>

\* the response is sent; the handler can serve the next request
UpdateReturn(p) ==
  /\ ureq[p].pc \in {"done", "failed"}
  /\ ureq' = [ureq EXCEPT ![p] = IdleUpdate]
  /\ UNCHANGED <<now, dbVars, creq, sreq, freq, xreq, preq, vreq>>

(* --------------------------- PaymentService --------------------------- *)
IdlePay ==
  [pc |-> "idle", op |-> "", orderId |-> 0, paymentId |-> "", providerName |-> "",
   extId |-> <<>>, valid |-> FALSE, amount |-> 0, refunded |-> 0, payAmount |-> 0,
   externalId |-> "", signature |-> <<>>, err |-> ""]

\* getPaymentProvider: the strategy for an organization's paymentProvider
\* ("throws" for the provider that is not implemented)
getPaymentProvider(providerName) ==
  CASE providerName = "razorpay" -> "razorpay"
    [] providerName = "stripe"   -> "throws"
    [] OTHER                     -> "free"

\* the HMAC of orderId|paymentId under the server-held key secret
Hmac(orderRef, paymentId, key) == <<orderRef, paymentId, key>>
keySecret == "secret"

\* PaymentProvider.verifyPayment of the selected strategy
ProviderVerify(name, paymentId, orderRef, signature) ==
  IF name = "razorpay" THEN Hmac(orderRef, paymentId, keySecret) = signature ELSE TRUE

\* (mutant) initiatePayment that does not look for an existing payment
ExistingPaymentIgnored(payment) == FALSE

\* initiatePayment: if (order.payment)
ExistingPayment(payment) == payment.status # "NONE"

\* (mutant) initiatePayment that hands out a completed payment again
AlreadyPaidIgnored(payment) == FALSE

\* initiatePayment: order.payment.status === 'COMPLETED'
AlreadyPaid(payment) == payment.status = "COMPLETED"

\* (mutant) the free branch taken for every order
FreeOrderAlways(order) == TRUE

\* initiatePayment: the tenant does not require payment or the total is zero
FreeOrder(order) ==
  ~organizations[order.organizationId].requirePayment \/ order.total = 0

\* initiatePayment: the order lookup and the existing-payment branch
InitiateBegin(p, orderId) ==
  /\ preq[p].pc = "idle"
  /\ LET r == [IdlePay EXCEPT !.op = "initiate", !.orderId = orderId]
     IN IF orderId \notin 1..Len(orders)
          THEN preq' = [preq EXCEPT ![p] = [r EXCEPT !.pc = "failed", !.err = "NotFound"]]
          ELSE IF ExistingPayment(payments[orderId])
          THEN IF AlreadyPaid(payments[orderId])
                 THEN preq' = [preq EXCEPT ![p] = [r EXCEPT !.pc = "failed", !.err = "BadRequest"]]
                 ELSE preq' = [preq EXCEPT ![p] =
                        [r EXCEPT !.pc = "done", !.extId = payments[orderId].externalOrderId,
                                  !.providerName = payments[orderId].provider]]
          ELSE IF FreeOrder(orders[orderId])
          THEN preq' = [preq EXCEPT ![p] = [r EXCEPT !.pc = "freeCreate",
                                              !.payAmount = orders[orderId].total]]
          ELSE LET name == getPaymentProvider(
                              organizations[orders[orderId].organizationId].paymentProvider)
               IN IF name = "throws"
                    THEN preq' = [preq EXCEPT ![p] = [r EXCEPT !.pc = "failed", !.err = "Internal"]]
                    ELSE preq' = [preq EXCEPT ![p] =
                           [r EXCEPT !.pc = "provCreate", !.payAmount = orders[orderId].total,
                                     !.providerName = name]]
  /\ UNCHANGED <<now, dbVars, creq, sreq, freq, xreq, ureq, vreq>>

\* initiatePayment, free order: prisma.payment.create of a COMPLETED 'free' row
\* (the payment table allows one row per order)
InitiateFreeCreate(p) ==
  /\ preq[p].pc = "freeCreate"
  /\ LET id == preq[p].orderId
     IN IF payments[id].status # "NONE"
          THEN /\ preq' = [preq EXCEPT ![p].pc = "failed", ![p].err = "Internal"]
               /\ UNCHANGED payments
          ELSE /\ payments' = [payments EXCEPT ![id] =
                     [NoPayment EXCEPT !.status = "COMPLETED", !.provider = "free",
                                       !.amount = preq[p].payAmount]]
               /\ preq' = [preq EXCEPT ![p].pc = "freeAccept"]
  /\ UNCHANGED <<now, sessions, cache, items, coupons, orders, events, provider, stock0,
                 creq, sreq, freq, xreq, ureq, vreq>>

\* initiatePayment, free order: prisma.order.update to ACCEPTED
InitiateFreeAccept(p) ==
  /\ preq[p].pc = "freeAccept"
  /\ orders' = [orders EXCEPT ![preq[p].orderId].status = "ACCEPTED"]
  /\ preq' = [preq EXCEPT ![p].pc = "done"]
  /\ UNCHANGED <<now, sessions, cache, items, coupons, payments, events, provider, stock0,
                 creq, sreq, freq, xreq, ureq, vreq>>

\* initiatePayment: provider.createOrder(total, 'INR', orderNumber); the call to
\* the hosted provider returns an order or rejects (outage, timeout)
InitiateProviderOrder(p) ==
  /\ preq[p].pc = "provCreate"
  /\ LET r == preq[p]
         receipt == orders[r.orderId].orderNumber
     IN IF r.providerName = "razorpay"
          THEN \/ /\ provider' = [provider EXCEPT !.orders =
                        Append(@, [receipt |-> receipt, amount |-> r.payAmount * 100])]
                  /\ preq' = [preq EXCEPT ![p].pc = "payCreate",
                                          ![p].extId = <<"rzp", Len(provider.orders) + 1>>]
               \/ /\ provider' = provider
                  /\ preq' = [preq EXCEPT ![p].pc = "failed", ![p].err = "Internal"]
          ELSE /\ provider' = provider
               /\ preq' = [preq EXCEPT ![p].pc = "payCreate",
                                       ![p].extId = <<"free", receipt>>]
  /\ UNCHANGED <<now, sessions, cache, items, coupons, orders, payments, events, stock0,
                 creq, sreq, freq, xreq, ureq, vreq>>

\* initiatePayment: prisma.payment.create of the PENDING row
InitiatePaymentRow(p) ==
  /\ preq[p].pc = "payCreate"
  /\ LET id == preq[p].orderId
     IN IF payments[id].status # "NONE"
          THEN /\ preq' = [preq EXCEPT ![p].pc = "failed", ![p].err = "Internal"]
               /\ UNCHANGED payments
          ELSE /\ payments' = [payments EXCEPT ![id] =
                     [NoPayment EXCEPT !.status = "PENDING", !.provider = preq[p].providerName,
                                       !.amount = preq[p].payAmount,
                                       !.externalOrderId = preq[p].extId]]
               /\ preq' = [preq EXCEPT ![p].pc = "done"]
  /\ UNCHANGED <<now, sessions, cache, items, coupons, orders, events, provider, stock0,
                 creq, sreq, freq, xreq, ureq, vreq>>

\* verifyPayment: the order lookup and the provider's signature check (the
\* signature is used again only when it was found valid)
VerifyBegin(p, orderId, paymentId, providerOrderId, signature) ==
  /\ preq[p].pc = "idle"
  /\ LET r == [IdlePay EXCEPT !.op = "verify", !.orderId = orderId, !.paymentId = paymentId]
     IN IF orderId \notin 1..Len(orders) \/ payments[orderId].status = "NONE"
          THEN preq' = [preq EXCEPT ![p] = [r EXCEPT !.pc = "failed", !.err = "NotFound"]]
          ELSE LET name == getPaymentProvider(
                              organizations[orders[orderId].organizationId].paymentProvider)
                   isValid == ProviderVerify(name, paymentId, providerOrderId, signature)
               IN IF name = "throws"
                    THEN preq' = [preq EXCEPT ![p] = [r EXCEPT !.pc = "failed", !.err = "Internal"]]
                    ELSE preq' = [preq EXCEPT ![p] =
                           [r EXCEPT !.pc = IF isValid THEN "markCompleted" ELSE "markFailed",
                                     !.valid = isValid,
                                     !.signature = IF isValid THEN signature ELSE <<>>]]
  /\ UNCHANGED <<now, dbVars, creq, sreq, freq, xreq, ureq, vreq>>

\* (mutant) a failed verification that leaves the payment as it was
VerifyFailureUnmarked(p) ==
  /\ preq[p].pc = "markFailed"
  /\ preq' = [preq EXCEPT ![p].pc = "failed", ![p].err = "BadRequest"]
  /\ UNCHANGED <<now, dbVars, creq, sreq, freq, xreq, ureq, vreq>>

\* verifyPayment, invalid signature: the payment is marked FAILED
VerifyMarkFailed(p) ==
  /\ preq[p].pc = "markFailed"
  /\ payments' = [payments EXCEPT ![preq[p].orderId].status = "FAILED"]
  /\ preq' = [preq EXCEPT ![p].pc = "failed", ![p].err = "BadRequest"]
  /\ UNCHANGED <<now, sessions, cache, items, coupons, orders, events, provider, stock0,
                 creq, sreq, freq, xreq, ureq, vreq>>

\* verifyPayment, valid signature: the payment is marked COMPLETED
VerifyMarkCompleted(p) ==
  /\ preq[p].pc = "markCompleted"
  /\ payments' = [payments EXCEPT ![preq[p].orderId].status = "COMPLETED",
                                  ![preq[p].orderId].externalId = preq[p].paymentId,
                                  ![preq[p].orderId].signature = preq[p].signature]
  /\ preq' = [preq EXCEPT ![p].pc = "accept"]
  /\ UNCHANGED <<now, sessions, cache, items, coupons, orders, events, provider, stock0,
                 creq, sreq, freq, xreq, ureq, vreq>>

\* verifyPayment: prisma.order.update to ACCEPTED
VerifyAccept(p) ==
  /\ preq[p].pc = "accept"
  /\ orders' = [orders EXCEPT ![preq[p].orderId].status = "ACCEPTED"]
  /\ preq' = [preq EXCEPT ![p].pc = "done"]
  /\ UNCHANGED <<now, sessions, cache, items, coupons, payments, events, provider, stock0,
                 creq, sreq, freq, xreq, ureq, vreq>>

\* (mutant) refund of any payment that exists
RefundableAny(payment) == payment.status # "NONE"

\* refund: order.payment exists and its status is COMPLETED
Refundable(payment) == payment.status = "COMPLETED"

\* refund: the order lookup and the completed-payment check
RefundBegin(p, orderId, amount) ==
  /\ preq[p].pc = "idle"
  /\ Len(provider.refunds) < MaxRefunds
  /\ LET r == [IdlePay EXCEPT !.op = "refund", !.orderId = orderId, !.amount = amount]
     IN IF orderId \notin 1..Len(orders) \/ ~Refundable(payments[orderId])
          THEN preq' = [preq EXCEPT ![p] = [r EXCEPT !.pc = "failed", !.err = "BadRequest"]]
          ELSE LET name == getPaymentProvider(
                              organizations[orders[orderId].organizationId].paymentProvider)
               IN IF name = "throws"
                    THEN preq' = [preq EXCEPT ![p] = [r EXCEPT !.pc = "failed", !.err = "Internal"]]
                    ELSE preq' = [preq EXCEPT ![p] =
                           [r EXCEPT !.pc = "provRefund", !.providerName = name,
                                     !.externalId = payments[orderId].externalId,
                                     !.refunded = payments[orderId].refundedAmount,
                                     !.payAmount = payments[orderId].amount]]
  /\ UNCHANGED <<now, dbVars, creq, sreq, freq, xreq, ureq, vreq>>

\* refund: provider.refund(externalId, amount); the no-payment strategy always
\* answers, the hosted provider executes the refund of a payment id it has
\* issued or rejects the call
RefundProvider(p) ==
  /\ preq[p].pc = "provRefund"
  /\ \/ /\ preq[p].providerName = "razorpay" => preq[p].externalId # ""
        /\ provider' = [provider EXCEPT !.refunds =
              Append(@, [orderId |-> preq[p].orderId, provider |-> preq[p].providerName,
                         paymentId |-> preq[p].externalId, amount |-> preq[p].amount])]
        /\ preq' = [preq EXCEPT ![p].pc = "refundWrite"]
     \/ /\ preq[p].providerName = "razorpay"
        /\ provider' = provider
        /\ preq' = [preq EXCEPT ![p].pc = "failed", ![p].err = "Internal"]
  /\ UNCHANGED <<now, sessions, cache, items, coupons, orders, payments, events, stock0,
                 creq, sreq, freq, xreq, ureq, vreq>>

\* the status refund stores for the new refunded amount
RefundStatus(newRefundedAmount, amount) ==
  IF newRefundedAmount >= amount THEN "REFUNDED" ELSE "PARTIALLY_REFUNDED"

\* refund: prisma.payment.update with the amounts read at the start
RefundWrite(p) ==
  /\ preq[p].pc = "refundWrite"
  /\ LET r == preq[p]
         refundAmount == IF r.amount = NULL THEN r.payAmount ELSE r.amount
         newRefundedAmount == r.refunded + refundAmount
     IN payments' = [payments EXCEPT ![r.orderId].status =
                                       RefundStatus(newRefundedAmount, r.payAmount),
                                     ![r.orderId].refundedAmount = newRefundedAmount,
                                     ![r.orderId].refundedAt = now]
  /\ preq' = [preq EXCEPT ![p].pc = "done"]
  /\ UNCHANGED <<now, sessions, cache, items, coupons, orders, events, provider, stock0,
                 creq, sreq, freq, xreq, ureq, vreq>>

\* the response is sent; the handler can serve the next request
PayReturn(p) ==
  /\ preq[p].pc \in {"done", "failed"}
  /\ preq' = [preq EXCEPT ![p] = IdlePay]
  /\ UNCHANGED <<now, dbVars, creq, sreq, freq, xreq, ureq, vreq>>

(* --------------------------- CouponService ---------------------------- *)
IdleValidate ==
  [pc |-> "idle", orgId |-> "", code |-> NoCode, orderAmount |-> 0, userId |-> NoUser,
   couponId |-> "", discount |-> 0, finalAmount |-> 0, err |-> ""]

Min(a, b) == IF a <= b THEN a ELSE b

\* (mutant) the discount of validate computed as OrderService.create does
ValidateDiscountUnbounded(coupon, orderAmount) == CreateDiscount(coupon, orderAmount)

\* the discount CouponService.validate computes
ValidateDiscount(coupon, orderAmount) ==
  IF coupon.type = "PERCENTAGE"
    THEN LET d == (orderAmount * coupon.value) \div 100
         IN IF coupon.maxDiscount # NULL /\ d > coupon.maxDiscount
              THEN coupon.maxDiscount ELSE d
    ELSE Min(coupon.value, orderAmount)

\* the end of CouponService.validate: the minimum order amount, the discount
\* and the result
ValidateResult(r, coupon) ==
  IF coupon.minOrderAmount # NULL /\ r.orderAmount < coupon.minOrderAmount
    THEN [r EXCEPT !.pc = "failed", !.err = "BadRequest"]
    ELSE LET d == ValidateDiscount(coupon, r.orderAmount)
         IN [r EXCEPT !.pc = "done", !.discount = d, !.finalAmount = r.orderAmount - d]

\* CouponService.validate: prisma.coupon.findUnique and the checks on the row
\* (active flag, validity window, usage limit)
ValidateBegin(p, orgId, code, orderAmount, userId) ==
  /\ vreq[p].pc = "idle"
  /\ LET r == [IdleValidate EXCEPT !.orgId = orgId, !.code = code,
                                   !.orderAmount = orderAmount, !.userId = userId]
         found == CouponLookup(toUpperCase(code), orgId)
     IN IF found = {}
          THEN vreq' = [vreq EXCEPT ![p] = [r EXCEPT !.pc = "failed", !.err = "NotFound"]]
          ELSE LET id == CHOOSE c \in found : TRUE
                   coupon == coupons[id]
               IN IF \/ ~coupon.isActive
                     \/ coupon.validFrom > now
                     \/ coupon.validUntil # NULL /\ coupon.validUntil < now
                     \/ coupon.usageLimit # NULL /\ coupon.usageCount >= coupon.usageLimit
                    THEN vreq' = [vreq EXCEPT ![p] =
                           [r EXCEPT !.pc = "failed", !.err = "BadRequest", !.couponId = id]]
                    ELSE IF userId # NoUser /\ coupon.perUserLimit # NULL
                    THEN vreq' = [vreq EXCEPT ![p] =
                           [r EXCEPT !.pc = "userCount", !.couponId = id]]
                    ELSE vreq' = [vreq EXCEPT ![p] =
                           ValidateResult([r EXCEPT !.couponId = id], coupon)]
  /\ UNCHANGED <<now, dbVars, creq, sreq, freq, xreq, ureq, preq>>

\* (mutant) validate takes the usage it has just granted
ValidateConsuming(p) ==
  /\ vreq[p].pc = "userCount"
  /\ coupons' = [coupons EXCEPT ![vreq[p].couponId].usageCount = @ + 1]
  /\ vreq' = [vreq EXCEPT ![p].pc = "done"]
  /\ UNCHANGED <<now, sessions, cache, items, orders, payments, events, provider, stock0,
                 creq, sreq, freq, xreq, ureq, preq>>

\* CouponService.validate: prisma.order.count of the user's orders with the
\* coupon, the per-user limit, then the rest of the checks on the row read at
\* the start
ValidateUserCount(p) ==
  /\ vreq[p].pc = "userCount"
  /\ LET r == vreq[p]
         userUsage == Cardinality({o \in 1..Len(orders) :
                         orders[o].couponId = r.couponId /\ orders[o].userId = r.userId})
     IN IF userUsage >= coupons[r.couponId].perUserLimit
          THEN vreq' = [vreq EXCEPT ![p] = [r EXCEPT !.pc = "failed", !.err = "BadRequest"]]
          ELSE vreq' = [vreq EXCEPT ![p] = ValidateResult(r, coupons[r.couponId])]
  /\ UNCHANGED <<now, dbVars, creq, sreq, freq, xreq, ureq, preq>>

\* the response is sent; the handler can serve the next request
ValidateReturn(p) ==
  /\ vreq[p].pc \in {"done", "failed"}
  /\ vreq' = [vreq EXCEPT ![p] = IdleValidate]
  /\ UNCHANGED <<now, dbVars, creq, sreq, freq, xreq, ureq, preq>>

(* ------------------------------- Init --------------------------------- *)
\* the coupon an administrator has set up for organization o1 (createCouponSchema)
CouponConfigs ==
  { [type |-> "PERCENTAGE", value |-> 10, minOrderAmount |-> 100, maxDiscount |-> NULL,
     usageLimit |-> NULL],
    [type |-> "PERCENTAGE", value |-> 50, minOrderAmount |-> NULL, maxDiscount |-> 20,
     usageLimit |-> 1],
    [type |-> "FIXED", value |-> 100, minOrderAmount |-> NULL, maxDiscount |-> NULL,
     usageLimit |-> NULL] }

InitCoupon(cfg) ==
  [code |-> "WELCOME", organizationId |-> "o1", type |-> cfg.type, value |-> cfg.value,
   minOrderAmount |-> cfg.minOrderAmount, maxDiscount |-> cfg.maxDiscount,
   usageLimit |-> cfg.usageLimit, perUserLimit |-> 1, validFrom |-> 0,
   validUntil |-> NULL, isActive |-> TRUE, usageCount |-> 0]

\* the catalog: i1 is a priced item with a finite stock, i2 a free item whose
\* stock is finite or unlimited
InitItems(s1, s2) ==
  [i \in ItemIds |->
     IF i = "i1"
       THEN [price |-> 80, isFree |-> FALSE, isActive |-> TRUE, isAvailable |-> s1 > 0,
             stock |-> s1]
       ELSE [price |-> 50, isFree |-> TRUE, isActive |-> TRUE, isAvailable |-> TRUE,
             stock |-> s2]]

\* the state of a fresh deployment whose catalog is set up and whose coupon is
\* one of the given rows
InitRows(stocks1, stocks2, rows) ==
  /\ now = 0
  /\ sessions = <<>>
  /\ cache = <<>>
  /\ \E s1 \in stocks1, s2 \in stocks2 : items = InitItems(s1, s2)
  /\ stock0 = [i \in ItemIds |-> items[i].stock]
  /\ \E row \in rows : coupons = [c \in CouponIds |-> row]
  /\ orders = <<>>
  /\ payments = <<>>
  /\ events = <<>>
  /\ provider = [orders |-> <<>>, refunds |-> <<>>]
  /\ creq = [p \in CreateProcs |-> IdleCreate]
  /\ sreq = [p \in SessProcs |-> IdleSess]
  /\ freq = [p \in FindProcs |-> IdleFind]
  /\ xreq = [p \in CloseProcs |-> IdleClose]
  /\ ureq = [p \in StatusProcs |-> IdleUpdate]
  /\ preq = [p \in PayCallers |-> IdlePay]
  /\ vreq = [p \in ValidateProcs |-> IdleValidate]

\* the state of a fresh deployment whose catalog and coupon are set up
InitWith(stocks1, stocks2, cfgs) ==
  InitRows(stocks1, stocks2, {InitCoupon(cfg) : cfg \in cfgs})

Init == InitWith({MaxStock}, {NULL}, CouponConfigs)

(* --------------------------- specifications --------------------------- *)
\* a guest opens the session of space q1
SessionOpen ==
  \E p \in SessProcs :
     \/ Len(sessions) = 0 /\ SessionCreateInsert(p, "q1", MaxTtl, NoUser)
     \/ SessionCreateCache(p)
     \/ SessionCreateReturn(p)

\* the steps of the OrderService.create request of process p
CreateSteps(p) ==
  \/ CreateReadItem(p)
  \/ CreateCoupon(p)
  \/ CreateCount(p)
  \/ CreateInsert(p)
  \/ CreateStockRead(p)
  \/ CreateStockWrite(p)
  \/ CreateCouponInc(p)
  \/ CreatePublish(p)
  \/ CreateReturn(p)

\* Spec: orders placed one after the other with any lines and coupon code,
\* while staff edit the price of i1
OrderCreate ==
  \/ \E sid \in 1..MaxSessions, lines \in ItemLists, code \in CouponCodes :
        CreateBegin("a", sid, lines, code, NoUser)
  \/ CreateSteps("a")

PriceEdit == \E p \in Prices : ItemUpdatePrice("i1", "o1", p)

Next == SessionOpen \/ OrderCreate \/ PriceEdit

Spec == Init /\ [][Next]_vars

\* SpecRace: two guests order concurrently from the same finite stocks
InitRace == InitWith(1..MaxStock, {1}, {CHOOSE cfg \in CouponConfigs : cfg.usageLimit = 1})

RaceLists == {l \in ItemLists : Len(l) = 1 \/ l[1].itemId # l[2].itemId}

OrderRace ==
  \E p \in CreateProcs :
     \/ \E lines \in RaceLists, code \in {NoCode, "welcome"} :
           CreateBegin(p, 1, lines, code, NoUser)
     \/ CreateSteps(p)

NextRace == SessionOpen \/ OrderRace

SpecRace == InitRace /\ [][NextRace]_vars

\* SpecSession: sessions are opened, read, closed and ordered against while
\* the clock runs
\* the session ids a client can hold: returned by a finished SessionService.create
KnownSessions ==
  {id \in 1..Len(sessions) : \A p \in SessProcs : ~(sreq[p].pc = "setex" /\ sreq[p].sid = id)}

\* the ids requests are made with: the known ones and one that has no row
RequestIds == KnownSessions \cup {MaxSessions + 1}

SessionCreate ==
  \E p \in SessProcs :
     \/ \E qr \in {"q1", "q3"}, ttl \in Ttls, uid \in {NoUser, "u1"} :
           Len(sessions) = 0 /\ SessionCreateInsert(p, qr, ttl, uid)
     \/ SessionCreateCache(p)
     \/ SessionCreateReturn(p)

SessionFind ==
  \E p \in FindProcs :
     \/ \E kind \in {"get", "menu"}, id \in RequestIds : FindCache(p, kind, id)
     \/ FindDbAfterHit(p)
     \/ FindDb(p)
     \/ MenuCategories(p)
     \/ FindDone(p)

SessionClose ==
  \E p \in CloseProcs :
     \/ \E id \in RequestIds, uid \in {NoUser, "u1", "u2"} : CloseBegin(p, id, uid)
     \/ CloseCacheDel(p)
     \/ CloseUpdate(p)
     \/ CloseReturn(p)

SessionOrder ==
  \/ \E id \in RequestIds :
        /\ Len(orders) = 0
        /\ CreateBegin("a", id, <<[itemId |-> "i1", quantity |-> 1]>>, "welcome", NoUser)
  \/ CreateSteps("a")

NextSession == Tick \/ SessionCreate \/ SessionFind \/ SessionClose \/ SessionOrder

InitSession == InitWith({MaxStock}, {NULL}, {CHOOSE cfg \in CouponConfigs : cfg.usageLimit = 1})

SpecSession == InitSession /\ [][NextSession]_vars

\* SpecStatus: one order is placed, staff update its status and its payment
\* is initiated, verified and refunded
ExtIds == {<<"rzp", n>> : n \in 1..MaxOrders}
Signatures == {Hmac(e, "pay1", k) : e \in ExtIds, k \in {keySecret, "forged"}}

StatusSession ==
  \E p \in SessProcs :
     \/ \E qr \in {"q1", "q2"} : Len(sessions) = 0 /\ SessionCreateInsert(p, qr, MaxTtl, NoUser)
     \/ SessionCreateCache(p)
     \/ SessionCreateReturn(p)

StatusOrder ==
  \/ \E in \in {<<"i1", "welcome">>, <<"i2", NoCode>>} :
        /\ Len(orders) = 0
        /\ CreateBegin("a", 1, <<[itemId |-> in[1], quantity |-> 1]>>, in[2], NoUser)
  \/ CreateSteps("a")

StatusUpdate ==
  \/ \E id \in {1, MaxOrders + 1}, status \in updateOrderStatusSchema, org \in {"o1", "o2"} :
        UpdateBegin("m", id, status, org)
  \/ UpdateWrite("m")
  \/ UpdatePublish("m")
  \/ UpdateReturn("m")

Payment ==
  \E p \in PayProcs :
     \/ \E id \in {1, MaxOrders + 1} : InitiateBegin(p, id)
     \/ InitiateFreeCreate(p)
     \/ InitiateFreeAccept(p)
     \/ InitiateProviderOrder(p)
     \/ InitiatePaymentRow(p)
     \/ \E id \in {1, MaxOrders + 1}, e \in ExtIds, sig \in Signatures :
           VerifyBegin(p, id, "pay1", e, sig)
     \/ VerifyMarkFailed(p)
     \/ VerifyMarkCompleted(p)
     \/ VerifyAccept(p)
     \/ PayReturn(p)

NextStatus == StatusSession \/ StatusOrder \/ StatusUpdate \/ Payment

SpecStatus == InitSession /\ [][NextStatus]_vars

\* SpecUpdates: one order is placed and two staff clients update its status
\* concurrently while the clock runs
UpdatesOrder ==
  \/ /\ Len(orders) = 0
     /\ CreateBegin("a", 1, <<[itemId |-> "i1", quantity |-> 1]>>, "welcome", NoUser)
  \/ CreateSteps("a")

\* the targets the two clients ask for
UpdateTargets == {"ACCEPTED", "PREPARING", "CANCELLED"}

ConcurrentUpdate ==
  \E p \in StatusProcs :
     \/ \E status \in UpdateTargets : UpdateBegin(p, 1, status, "o1")
     \/ UpdateWrite(p)
     \/ UpdatePublish(p)
     \/ UpdateReturn(p)

NextUpdates == Tick \/ SessionOpen \/ UpdatesOrder \/ ConcurrentUpdate

SpecUpdates == InitSession /\ [][NextUpdates]_vars

\* SpecCoupon: signed-in users preview the coupon while orders that apply it
\* are placed
OrderAmounts == {50, 80, 160}

CouponOrder ==
  \/ \E qty \in 1..MaxQty, code \in {NoCode, "welcome"}, uid \in {NoUser, "u1"} :
        CreateBegin("a", 1, <<[itemId |-> "i1", quantity |-> qty]>>, code, uid)
  \/ CreateSteps("a")

CouponValidate ==
  \E p \in ValidateProcs :
     \/ \E org \in {"o1", "o2"}, code \in CouponCodes, amount \in OrderAmounts,
           uid \in {NoUser, "u1"} :
           ValidateBegin(p, org, code, amount, uid)
     \/ ValidateUserCount(p)
     \/ ValidateReturn(p)

NextCoupon == SessionOpen \/ CouponOrder \/ CouponValidate

SpecCoupon == Init /\ [][NextCoupon]_vars

\* SpecPay: one order is placed in a tenant of each payment set-up and its
\* payment is initiated, verified and refunded
PaySession ==
  \E p \in SessProcs :
     \/ \E qr \in {"q1", "q2", "q4", "q5"} :
           Len(sessions) = 0 /\ SessionCreateInsert(p, qr, MaxTtl, NoUser)
     \/ SessionCreateCache(p)
     \/ SessionCreateReturn(p)

\* the amounts a refund is asked for (NULL: none given, the whole payment)
RefundAmounts == {NULL, 40, 100}

PayRefund ==
  \E p \in PayProcs :
     \/ \E id \in {1, MaxOrders + 1}, amount \in RefundAmounts : RefundBegin(p, id, amount)
     \/ RefundProvider(p)
     \/ RefundWrite(p)

NextPay == PaySession \/ StatusOrder \/ Payment \/ PayRefund

SpecPay == InitSession /\ [][NextPay]_vars

\* SpecPayRace: one order is placed and two payment requests for it are in
\* flight at the same time
RaceSignatures == {Hmac(<<"rzp", 1>>, "pay1", k) : k \in {keySecret, "forged"}}

RaceSession ==
  \E p \in SessProcs :
     \/ \E qr \in {"q1", "q2"} :
           Len(sessions) = 0 /\ SessionCreateInsert(p, qr, MaxTtl, NoUser)
     \/ SessionCreateCache(p)
     \/ SessionCreateReturn(p)

PayRace ==
  \/ \E p \in PayCallers :
        \/ InitiateBegin(p, 1)
        \/ InitiateFreeCreate(p)
        \/ InitiateFreeAccept(p)
        \/ InitiateProviderOrder(p)
        \/ InitiatePaymentRow(p)
        \/ \E amount \in {NULL, 40} : RefundBegin(p, 1, amount)
        \/ RefundProvider(p)
        \/ RefundWrite(p)
        \/ PayReturn(p)
  \/ \E sig \in RaceSignatures : VerifyBegin("p", 1, "pay1", <<"rzp", 1>>, sig)
  \/ VerifyMarkFailed("p")
  \/ VerifyMarkCompleted("p")
  \/ VerifyAccept("p")

NextPayRace == RaceSession \/ StatusOrder \/ PayRace

SpecPayRace == InitSession /\ [][NextPayRace]_vars

\* SpecReplay: two orders of the razorpay tenant are placed and paid; a
\* verification is sent with the reference and signature of any order the
\* provider has created
ReplaySession ==
  \E p \in SessProcs :
     \/ Len(sessions) = 0 /\ SessionCreateInsert(p, "q1", MaxTtl, NoUser)
     \/ SessionCreateCache(p)
     \/ SessionCreateReturn(p)

ReplayOrder ==
  \/ \E code \in {NoCode, "welcome"} :
        CreateBegin("a", 1, <<[itemId |-> "i1", quantity |-> 1]>>, code, NoUser)
  \/ CreateSteps("a")

\* the provider order ids a client can have seen
IssuedIds == {<<"rzp", k>> : k \in 1..Len(provider.orders)}

ReplayPayment ==
  \/ \E id \in 1..MaxOrders : InitiateBegin("p", id)
  \/ InitiateProviderOrder("p")
  \/ InitiatePaymentRow("p")
  \/ \E id \in 1..MaxOrders, e \in IssuedIds, k \in {keySecret, "forged"} :
        VerifyBegin("p", id, "pay1", e, Hmac(e, "pay1", k))
  \/ VerifyMarkFailed("p")
  \/ VerifyMarkCompleted("p")
  \/ VerifyAccept("p")
  \/ PayReturn("p")

NextReplay == ReplaySession \/ ReplayOrder \/ ReplayPayment

SpecReplay == InitSession /\ [][NextReplay]_vars

\* SpecValidate: the coupon is set up active or not, with or without a
\* validity window; one order may use it while users preview it and the clock
\* runs
CouponRows ==
  {InitCoupon(cfg) : cfg \in CouponConfigs}
    \cup {[InitCoupon(CHOOSE cfg \in CouponConfigs : cfg.usageLimit = 1)
             EXCEPT !.isActive = w[1], !.validFrom = w[2], !.validUntil = w[3]] :
           w \in {<<FALSE, 0, NULL>>, <<TRUE, 2, NULL>>, <<TRUE, 0, 1>>}}

InitValidate == InitRows({MaxStock}, {NULL}, CouponRows)

ValidateOrder ==
  \/ \E uid \in {NoUser, "u1"} :
        /\ Len(orders) = 0
        /\ CreateBegin("a", 1, <<[itemId |-> "i1", quantity |-> 1]>>, "welcome", uid)
  \/ CreateSteps("a")

NextValidate == Tick \/ SessionOpen \/ ValidateOrder \/ CouponValidate

SpecValidate == InitValidate /\ [][NextValidate]_vars

(* ------------------------ properties: ordering ------------------------ *)
Quiescent == \A p \in CreateProcs : creq[p].pc \in {"idle", "done", "failed"}

\* the order's creation has returned successfully (its NEW_ORDER went out)
Created(o) ==
  \E k \in 1..Len(events) : events[k].type = "NEW_ORDER" /\ events[k].orderId = o

LineQty(lines, i) ==
  SumSeq([k \in 1..Len(lines) |-> IF lines[k].itemId = i THEN lines[k].quantity ELSE 0])

\* units of item i in the orders whose creation succeeded
Sold(i) ==
  SumSeq([o \in 1..Len(orders) |-> IF Created(o) THEN LineQty(orders[o].items, i) ELSE 0])

\* units of item i in all persisted orders
Ordered(i) == SumSeq([o \in 1..Len(orders) |-> LineQty(orders[o].items, i)])

Finite(i) == stock0[i] # NULL

\* C1: the order creations that succeed on a finite-stock item never take,
\* together, more units than the stock that was available before them (two
\* requests racing for the last unit do not both succeed)
C1_NoOversell == \A i \in ItemIds : Finite(i) => Sold(i) <= stock0[i]

\* C2: in every reachable state the stock of every finite-stock item is >= 0
C2_StockNonNegative == \A i \in ItemIds : items[i].stock # NULL => items[i].stock >= 0

\* two orders were created for more units than there were, and the stock
\* update of the later one had nothing left to take
C2_Witness ==
  /\ Quiescent
  /\ \E i \in ItemIds : Finite(i) /\ Sold(i) > stock0[i] /\ items[i].stock = 0

\* C3: order creation is all-or-nothing: a failed creation has persisted no
\* order, and once no creation is in flight every finite stock has gone down by
\* exactly the units of the persisted orders, every coupon counter has gone up
\* by the number of orders that carry the coupon, and every persisted order has
\* had its NEW_ORDER published
C3_AllOrNothing ==
  /\ \A p \in CreateProcs : creq[p].pc = "failed" => creq[p].orderId = 0
  /\ Quiescent =>
       /\ \A i \in ItemIds : Finite(i) => items[i].stock = stock0[i] - Ordered(i)
       /\ \A c \in CouponIds :
            coupons[c].usageCount =
              Cardinality({o \in 1..Len(orders) : orders[o].couponId = c})
       /\ \A o \in 1..Len(orders) : Created(o)

LineSum(lines) == SumSeq([k \in 1..Len(lines) |-> lines[k].unitPrice * lines[k].quantity])

\* the amounts of a persisted order are consistent
OrderAmountsOk(o) ==
  /\ o.total = o.subtotal - o.discount
  /\ o.subtotal = LineSum(o.items)
  /\ \A k \in 1..Len(o.items) :
       /\ o.items[k].total = o.items[k].unitPrice * o.items[k].quantity
       /\ items[o.items[k].itemId].isFree => o.items[k].unitPrice = 0

\* a line priced in this step carries the catalog price of this instant
SnapshotStep(p) ==
  (creq[p].pc = "items" /\ Len(creq'[p].orderItems) = Len(creq[p].orderItems) + 1) =>
     LET line == creq'[p].orderItems[Len(creq'[p].orderItems)]
         item == items[line.itemId]
     IN line.unitPrice = IF item.isFree THEN 0 ELSE item.price

\* an order inserted in this step carries the lines priced by its request
InsertStep(p) ==
  (creq[p].pc = "insert" /\ creq'[p].pc = "stockRead") =>
     orders'[Len(orders')].items = creq[p].orderItems

\* the amounts and lines of the orders already persisted are not touched
AmountsFrozen ==
  \A o \in 1..Len(orders) :
     /\ orders'[o].items = orders[o].items
     /\ orders'[o].subtotal = orders[o].subtotal
     /\ orders'[o].discount = orders[o].discount
     /\ orders'[o].total = orders[o].total

\* C4: every persisted order has total = subtotal - discount and subtotal =
\* sum of unitPrice * quantity, with unitPrice the catalog price read when the
\* line was priced (0 for a free item), and no later step (a catalog price edit
\* included) changes these values
C4_AmountsSnapshot ==
  /\ [](\A o \in 1..Len(orders) : OrderAmountsOk(orders[o]))
  /\ [][AmountsFrozen /\ \A p \in CreateProcs : SnapshotStep(p) /\ InsertStep(p)]_vars

\* an order with a discount whose line price is no longer the catalog price
C4_Witness ==
  \E o \in 1..Len(orders) :
     /\ orders[o].discount > 0
     /\ \E k \in 1..Len(orders[o].items) :
          LET line == orders[o].items[k]
          IN ~items[line.itemId].isFree /\ line.unitPrice # items[line.itemId].price

\* C5: for every created order 0 <= discount <= subtotal and total >= 0
C5_TotalNonNegative ==
  \A o \in 1..Len(orders) :
     /\ 0 <= orders[o].discount
     /\ orders[o].discount <= orders[o].subtotal
     /\ orders[o].total >= 0

(* ------------------------ properties: sessions ------------------------ *)
\* the session is one an order may be created against
SessionUsable(id) ==
  /\ id \in 1..Len(sessions)
  /\ sessions[id].status = "ACTIVE"
  /\ sessions[id].expiresAt > now

\* the failure kind of SessionService.findById for a session it rejects
FindFailure(id) == IF id \in 1..Len(sessions) THEN "BadRequest" ELSE "NotFound"

\* C6: OrderService.create goes on to create an order only for a session that
\* exists, is ACTIVE and expires strictly in the future; otherwise it fails with
\* the failure kind of SessionService.findById (NotFound for an absent session,
\* InvalidState for a closed or expired one)
C6_SessionGate ==
  [][\A p \in CreateProcs :
       (creq[p].pc = "idle" /\ creq'[p].pc # "idle") =>
          LET id == creq'[p].sessionId
          IN IF SessionUsable(id)
               THEN creq'[p].pc = "items"
               ELSE creq'[p].pc = "failed" /\ creq'[p].err = FindFailure(id)]_vars

\* C7: a findById / getMenu call returns a session only if the session is
\* ACTIVE and its expiresAt is after the moment of the return, cache hit or not
C7_FindRejectsStale ==
  \A p \in FindProcs :
     freq[p].pc \in {"categories", "done"} =>
        freq[p].retStatus = "ACTIVE" /\ freq[p].retExpiresAt > freq[p].retAt

\* C8: a CLOSED session has no cache entry and stays CLOSED, and a findById,
\* getMenu or OrderService.create call made once it is CLOSED fails
C8_ClosedIsFinal ==
  /\ [](\A id \in 1..Len(sessions) : sessions[id].status = "CLOSED" => ~CachePresent(id))
  /\ [](\A p \in CloseProcs :
          xreq[p].pc = "done" =>
             sessions[xreq[p].sid].status = "CLOSED" /\ cache[xreq[p].sid] = NULL)
  /\ [](\A p \in FindProcs : freq[p].closedAtStart => freq[p].pc \notin {"categories", "done"})
  /\ [][/\ \A id \in 1..Len(sessions) :
             sessions[id].status = "CLOSED" =>
                sessions'[id].status = "CLOSED" /\ cache'[id] = NULL
        /\ \A p \in CreateProcs :
             (creq[p].pc = "idle" /\ creq'[p].pc # "idle"
                /\ creq'[p].sessionId \in 1..Len(sessions)
                /\ sessions[creq'[p].sessionId].status = "CLOSED") =>
                   creq'[p].pc = "failed"]_vars

\* a call made on a closed session, while its cache entry would still be alive
\* had close not evicted it, has failed
C8_Witness ==
  \E p \in FindProcs :
     /\ freq[p].closedAtStart
     /\ freq[p].pc = "failed"
     /\ freq[p].err = "BadRequest"
     /\ sessions[freq[p].sid].expiresAt > now

(* ------------------------- properties: status ------------------------- *)
\* the state machine of the order lifecycle
StatusTable ==
  { <<"PENDING", "ACCEPTED">>, <<"PENDING", "CANCELLED">>,
    <<"ACCEPTED", "PREPARING">>, <<"ACCEPTED", "CANCELLED">>,
    <<"PREPARING", "READY">>, <<"PREPARING", "CANCELLED">>,
    <<"READY", "DELIVERED">>, <<"READY", "CANCELLED">> }

\* C9: the write of OrderService.updateStatus changes an order's status only
\* along an edge of the state-machine table
C9_OnlyTableEdges ==
  [][\A p \in StatusProcs :
       (ureq[p].pc = "update" /\ ureq'[p].pc = "publish") =>
          LET id == ureq[p].id
          IN orders'[id].status # orders[id].status =>
                <<orders[id].status, orders'[id].status>> \in StatusTable]_vars

\* C10: DELIVERED and CANCELLED are terminal: no step changes the status of an
\* order that is DELIVERED or CANCELLED
C10_TerminalIsFinal ==
  [][\A o \in 1..Len(orders) :
       orders[o].status \in {"DELIVERED", "CANCELLED"} =>
          orders'[o].status = orders[o].status]_vars

\* the update asked for was an edge of the table from the status its caller read
LegalWhenRead(r) == <<r.seen, r.status>> \in StatusTable

\* C11: concurrent status updates of one order take effect as if in a serial
\* order: an update that was an edge of the state-machine table from the status
\* its caller read is, when its write takes effect, an edge of the table from
\* the status stored at that moment (so the stored status sequence has no
\* illegal step brought in by the interleaving)
C11_SerializedUpdates ==
  [][\A p \in StatusProcs :
       (ureq[p].pc = "update" /\ ureq'[p].pc = "publish" /\ LegalWhenRead(ureq[p])) =>
          LET id == ureq[p].id
          IN orders'[id].status # orders[id].status =>
                <<orders[id].status, ureq[p].status>> \in StatusTable]_vars

\* the timestamp of status s in an order row
Stamp(order, s) ==
  CASE s = "ACCEPTED"  -> order.acceptedAt
    [] s = "PREPARING" -> order.preparingAt
    [] s = "READY"     -> order.readyAt
    [] s = "DELIVERED" -> order.deliveredAt
    [] s = "CANCELLED" -> order.cancelledAt

\* C12: every status timestamp is written at most once: a timestamp that is
\* set is never changed by a later step, and the write of updateStatus to
\* status S leaves the timestamps of the four other statuses untouched
C12_TimestampsWrittenOnce ==
  [][/\ \A o \in 1..Len(orders) : \A s \in updateOrderStatusSchema :
          Stamp(orders[o], s) # NULL => Stamp(orders'[o], s) = Stamp(orders[o], s)
     /\ \A p \in StatusProcs :
          (ureq[p].pc = "update" /\ ureq'[p].pc = "publish") =>
             \A s \in updateOrderStatusSchema \ {ureq[p].status} :
                Stamp(orders'[ureq[p].id], s) = Stamp(orders[ureq[p].id], s)]_vars

\* C13: an order whose status is ACCEPTED, PREPARING, READY, DELIVERED or
\* CANCELLED has the timestamp of that status set, whichever operation moved it
\* there
C13_StatusHasTimestamp ==
  \A o \in 1..Len(orders) :
     orders[o].status \in updateOrderStatusSchema =>
        Stamp(orders[o], orders[o].status) # NULL

\* C14: updateStatus called with a tenant other than the order's fails with
\* Forbidden, and neither that step nor any later step of the failed request
\* changes an order or publishes an event
C14_ForbiddenLeavesOrder ==
  [][\A p \in StatusProcs :
       /\ (/\ ureq[p].pc = "idle" /\ ureq'[p].pc # "idle"
           /\ ureq'[p].id \in 1..Len(orders)
           /\ orders[ureq'[p].id].organizationId # ureq'[p].orgId) =>
              /\ ureq'[p].pc = "failed" /\ ureq'[p].err = "Forbidden"
              /\ orders' = orders /\ events' = events
       /\ (ureq[p].pc = "failed" /\ ureq'[p] # ureq[p]) =>
              /\ ureq'[p].pc = "idle"
              /\ orders' = orders /\ events' = events]_vars

\* a status update made for the wrong tenant was refused while the order of
\* the other tenant sits in the store
C14_Witness ==
  \E p \in StatusProcs :
     /\ ureq[p].pc = "failed" /\ ureq[p].err = "Forbidden"
     /\ ureq[p].id \in 1..Len(orders)
     /\ orders[ureq[p].id].organizationId # ureq[p].orgId
     /\ Created(ureq[p].id)

\* no status update or payment request is in flight
StatusQuiet ==
  /\ \A p \in StatusProcs : ureq[p].pc \in {"idle", "done", "failed"}
  /\ \A p \in PayProcs : preq[p].pc \in {"idle", "done", "failed"}

\* the positions of the STATUS_UPDATE events of order o in the channel history
StatusEvents(o) ==
  {k \in 1..Len(events) : events[k].type = "STATUS_UPDATE" /\ events[k].orderId = o}

\* the status the subscribers of order o knew before event k
KnownBefore(o, k) ==
  LET earlier == {j \in StatusEvents(o) : j < k}
  IN IF earlier = {} THEN "PENDING"
     ELSE events[CHOOSE j \in earlier : \A i \in earlier : i <= j].status

\* C15: every change of an order's status is followed by a STATUS_UPDATE that
\* carries the updated order on the order's tenant channel (once no request is
\* in flight, the last STATUS_UPDATE of an order that left PENDING carries its
\* stored status), and no STATUS_UPDATE is published without a status change
\* (each one carries a status other than the one published before it)
C15_StatusChangesPublished ==
  /\ StatusQuiet =>
       \A o \in 1..Len(orders) :
          orders[o].status # "PENDING" =>
             /\ StatusEvents(o) # {}
             /\ LET last == CHOOSE k \in StatusEvents(o) : \A j \in StatusEvents(o) : j <= k
                IN /\ events[last].status = orders[o].status
                   /\ events[last].channel = orders[o].organizationId
  /\ \A o \in 1..Len(orders) : \A k \in StatusEvents(o) :
       events[k].status # KnownBefore(o, k)

(* ----------------------- properties: publication ---------------------- *)
\* the positions of the NEW_ORDER events of order o in the channel history
NewOrderEvents(o) ==
  {k \in 1..Len(events) : events[k].type = "NEW_ORDER" /\ events[k].orderId = o}

\* the writes of the persisted orders have all been applied
WritesApplied ==
  /\ \A i \in ItemIds : Finite(i) => items[i].stock = stock0[i] - Ordered(i)
  /\ \A c \in CouponIds :
       coupons[c].usageCount = Cardinality({o \in 1..Len(orders) : orders[o].couponId = c})

\* C16: a successful OrderService.create yields an order in PENDING and
\* publishes exactly one NEW_ORDER for it on the channel of the session's
\* tenant, after the order, its stock decrements and its coupon increment have
\* been applied; a failed create has persisted and published nothing
C16_NewOrderPublished ==
  /\ [](\A p \in CreateProcs :
          /\ creq[p].pc = "publish" =>
                creq[p].orderId \in 1..Len(orders) /\ WritesApplied
          /\ creq[p].pc = "done" => Cardinality(NewOrderEvents(creq[p].orderId)) = 1
          /\ creq[p].pc = "failed" => creq[p].orderId = 0)
  /\ [](\A o \in 1..Len(orders) :
          /\ Cardinality(NewOrderEvents(o)) <= 1
          /\ \A k \in NewOrderEvents(o) :
               /\ events[k].status = "PENDING"
               /\ events[k].channel = sessions[orders[o].sessionId].organizationId)
  /\ [][\A p \in CreateProcs :
          /\ (creq[p].pc = "insert" /\ creq'[p].pc = "stockRead") =>
                orders'[creq'[p].orderId].status = "PENDING"
          /\ (creq[p].pc # "failed" /\ creq'[p].pc = "failed") =>
                orders' = orders /\ events' = events
          /\ (creq[p].pc # "publish" /\ creq'[p] # creq[p]) =>
                \A o \in 1..Len(orders') :
                   Cardinality({k \in 1..Len(events') : events'[k].type = "NEW_ORDER"
                                                           /\ events'[k].orderId = o})
                     = Cardinality(NewOrderEvents(o))]_vars

\* an order with a coupon and a finite-stock line has been created and its
\* NEW_ORDER is on the channel
C16_Witness ==
  \E p \in CreateProcs :
     /\ creq[p].pc = "done"
     /\ orders[creq[p].orderId].couponId # ""
     /\ \E i \in ItemIds : Finite(i) /\ items[i].stock < stock0[i]
     /\ NewOrderEvents(creq[p].orderId) # {}

\* C17: order numbers are sequential and unique per tenant: two orders of one
\* tenant never carry the same number, and the numbers of a tenant increase in
\* creation order
C17_OrderNumbersUnique ==
  \A o1, o2 \in 1..Len(orders) :
     (o1 < o2 /\ orders[o1].organizationId = orders[o2].organizationId) =>
        orders[o1].orderNumber < orders[o2].orderNumber

\* C18: a supplied coupon code that fails a check never aborts the creation:
\* the coupon step of OrderService.create does not fail, and when the coupon is
\* unknown, inactive, expired, exhausted or below its minimum amount the order
\* goes on at full price with no coupon reference
C18_CouponNeverAborts ==
  [][\A p \in CreateProcs :
       (creq[p].pc = "coupon" /\ creq'[p] # creq[p]) =>
          /\ creq'[p].pc = "count"
          /\ LET r == creq[p]
                 found == CouponLookup(toUpperCase(r.couponCode), r.org)
                 usable == \E c \in found :
                              /\ coupons[c].isActive
                              /\ coupons[c].validFrom <= now
                              /\ coupons[c].validUntil = NULL \/ coupons[c].validUntil > now
                              /\ coupons[c].usageLimit = NULL
                                   \/ coupons[c].usageCount < coupons[c].usageLimit
                              /\ coupons[c].minOrderAmount = NULL
                                   \/ r.subtotal >= coupons[c].minOrderAmount
             IN ~usable => /\ creq'[p].discount = 0
                           /\ creq'[p].total = r.subtotal
                           /\ creq'[p].couponId = ""]_vars

\* C19: in every reachable state a coupon's usage counter equals its initial
\* value (0) plus the number of persisted orders that reference the coupon,
\* and no step decreases it
C19_UsageCountsOrders ==
  /\ [](\A c \in CouponIds :
          coupons[c].usageCount = Cardinality({o \in 1..Len(orders) : orders[o].couponId = c}))
  /\ [][\A c \in CouponIds : coupons'[c].usageCount >= coupons[c].usageCount]_vars

(* ------------------------- properties: coupons ------------------------ *)
\* C20: CouponService.validate never mutates state: no step of a validate
\* call, successful or failing, changes a coupon, an order or any other stored
\* data, so a coupon no order references has consumed no usage however often
\* it was validated
C20_ValidateReadOnly ==
  /\ [][\A p \in ValidateProcs : vreq'[p] # vreq[p] => dbVars' = dbVars]_vars
  /\ [](\A c \in CouponIds :
          (\A o \in 1..Len(orders) : orders[o].couponId # c) => coupons[c].usageCount = 0)

\* a validate call of a signed-in user has granted a discount on a coupon that
\* has a usage limit, and the coupon's counter is still 0
C20_Witness ==
  \E p \in ValidateProcs :
     /\ vreq[p].pc = "done"
     /\ vreq[p].userId # NoUser
     /\ vreq[p].discount > 0
     /\ coupons[vreq[p].couponId].usageLimit # NULL
     /\ coupons[vreq[p].couponId].usageCount = 0

\* the coupon row is inactive, not yet valid, expired or used up
RowRejected(coupon) ==
  \/ ~coupon.isActive
  \/ now < coupon.validFrom
  \/ coupon.validUntil # NULL /\ coupon.validUntil < now
  \/ coupon.usageLimit # NULL /\ coupon.usageCount >= coupon.usageLimit

\* the number of orders of user uid that carry coupon c
UserUsage(c, uid) ==
  Cardinality({o \in 1..Len(orders) : orders[o].couponId = c /\ orders[o].userId = uid})

\* the discount of section 4.2: a percentage of the amount capped at
\* maxDiscount, or the fixed value but no more than the amount
ClaimedDiscount(coupon, amount) ==
  IF coupon.type = "PERCENTAGE"
    THEN LET d == (amount * coupon.value) \div 100
         IN IF coupon.maxDiscount # NULL /\ coupon.maxDiscount < d THEN coupon.maxDiscount ELSE d
    ELSE IF coupon.value <= amount THEN coupon.value ELSE amount

\* the result of a validate call r that passed the checks on row and user
ClaimedResult(r, coupon) ==
  IF coupon.minOrderAmount # NULL /\ r.orderAmount < coupon.minOrderAmount
    THEN r.pc = "failed" /\ r.err = "BadRequest"
    ELSE /\ r.pc = "done"
         /\ r.discount = ClaimedDiscount(coupon, r.orderAmount)
         /\ r.finalAmount = r.orderAmount - r.discount

\* C21: validate fails NotFound when the tenant has no coupon with the
\* uppercased code; fails InvalidState when the coupon is inactive, not yet
\* valid, expired, used up, used by the user perUserLimit times, or the amount
\* is below minOrderAmount; otherwise it returns the percentage discount capped
\* at maxDiscount, or min(value, orderAmount), and finalAmount = amount - discount
C21_ValidateOutcome ==
  [][\A p \in ValidateProcs :
       LET r == vreq'[p]
           found == {c \in CouponIds : /\ coupons[c].code = toUpperCase(r.code)
                                       /\ coupons[c].organizationId = r.orgId}
       IN /\ (vreq[p].pc = "idle" /\ r.pc # "idle") =>
               /\ found = {} => r.pc = "failed" /\ r.err = "NotFound"
               /\ \A c \in found :
                    IF RowRejected(coupons[c])
                      THEN r.pc = "failed" /\ r.err = "BadRequest"
                      ELSE IF r.userId # NoUser /\ coupons[c].perUserLimit # NULL
                      THEN r.pc = "userCount"
                      ELSE ClaimedResult(r, coupons[c])
          /\ (vreq[p].pc = "userCount" /\ r.pc # "userCount") =>
               IF UserUsage(r.couponId, r.userId) >= coupons[r.couponId].perUserLimit
                 THEN r.pc = "failed" /\ r.err = "BadRequest"
                 ELSE ClaimedResult(r, coupons[r.couponId])]_vars

\* validate has granted a fixed coupon worth more than the amount, and the
\* discount is the amount
C21_Witness ==
  \E p \in ValidateProcs :
     /\ vreq[p].pc = "done"
     /\ coupons[vreq[p].couponId].type = "FIXED"
     /\ coupons[vreq[p].couponId].value > vreq[p].orderAmount
     /\ vreq[p].discount = vreq[p].orderAmount
     /\ vreq[p].finalAmount = 0

(* ------------------------ properties: payments ------------------------ *)
\* process p starts a call of operation op in this step
Starts(p, op) == preq[p].pc = "idle" /\ preq'[p].pc # "idle" /\ preq'[p].op = op

\* C22: initiatePayment on an order that has a PENDING payment returns the
\* external order reference stored with that payment (the one the first call
\* returned), creates no payment row and calls no provider createOrder
C22_InitiateIdempotent ==
  /\ [][\A p \in PayProcs :
          LET id == preq'[p].orderId
          IN /\ (/\ Starts(p, "initiate") /\ id \in 1..Len(orders)
                 /\ payments[id].status = "PENDING") =>
                    /\ preq'[p].pc = "done"
                    /\ preq'[p].extId = payments[id].externalOrderId
                    /\ payments' = payments /\ provider' = provider
             /\ (preq[p].pc = "done" /\ preq'[p] # preq[p]) =>
                    payments' = payments /\ provider' = provider]_vars
  /\ [](\A p \in PayProcs :
          (/\ preq[p].pc = "done" /\ preq[p].op = "initiate"
           /\ payments[preq[p].orderId].status = "PENDING") =>
              preq[p].extId = payments[preq[p].orderId].externalOrderId)
  /\ [](\A o \in 1..Len(orders) :
          Cardinality({k \in 1..Len(provider.orders) :
                         provider.orders[k].receipt = orders[o].orderNumber}) <= 1)

\* a repeated initiatePayment has returned the reference of the PENDING
\* payment, and the provider has been asked for one order only
C22_Witness ==
  \E p \in PayProcs :
     /\ preq[p].pc = "done" /\ preq[p].op = "initiate"
     /\ preq[p].payAmount = 0
     /\ payments[preq[p].orderId].status = "PENDING"
     /\ payments[preq[p].orderId].provider = "razorpay"
     /\ preq[p].extId = payments[preq[p].orderId].externalOrderId
     /\ Len(provider.orders) = 1

\* C23: initiatePayment fails NotFound for an absent order and InvalidState for
\* an order whose payment is COMPLETED, and no step of the failing call changes
\* a payment, the provider's orders or an order
C23_InitiateRejects ==
  [][\A p \in PayProcs :
       LET id == preq'[p].orderId
       IN /\ (Starts(p, "initiate") /\ id \notin 1..Len(orders)) =>
               /\ preq'[p].pc = "failed" /\ preq'[p].err = "NotFound"
               /\ dbVars' = dbVars
          /\ (/\ Starts(p, "initiate") /\ id \in 1..Len(orders)
              /\ payments[id].status = "COMPLETED") =>
               /\ preq'[p].pc = "failed" /\ preq'[p].err = "BadRequest"
               /\ dbVars' = dbVars
          /\ (preq[p].pc = "failed" /\ preq'[p] # preq[p]) =>
               preq'[p].pc = "idle" /\ dbVars' = dbVars]_vars

\* initiatePayment was refused on an order whose payment is COMPLETED
C23_Witness ==
  \E p \in PayProcs :
     /\ preq[p].pc = "failed" /\ preq[p].op = "initiate" /\ preq[p].err = "BadRequest"
     /\ payments[preq[p].orderId].status = "COMPLETED"
     /\ payments[preq[p].orderId].provider = "razorpay"

\* the order's tenant does not require payment or the order's total is zero
TenantFree(id) ==
  ~organizations[orders[id].organizationId].requirePayment \/ orders[id].total = 0

\* process p takes a step of its call from position pc
StepsFrom(p, pc) == preq[p].pc = pc /\ preq'[p] # preq[p]

\* the payment rows of the orders other than id stay as they are
OthersKept(id) == \A o \in DOMAIN payments : o # id => payments'[o] = payments[o]

\* C24 as stated: with no existing payment, every initiatePayment of an order
\* that is not free creates a PENDING payment with the provider's order id
C24_AlwaysPending ==
  [][\A p \in PayProcs :
       LET id == preq'[p].orderId
       IN /\ (/\ Starts(p, "initiate") /\ id \in 1..Len(orders)
              /\ payments[id].status = "NONE" /\ ~TenantFree(id)) =>
                 preq'[p].pc = "provCreate"
          /\ StepsFrom(p, "provCreate") => preq'[p].pc = "payCreate"
          /\ (StepsFrom(p, "payCreate") /\ payments[id].status = "NONE") =>
                 payments'[id].status = "PENDING"]_vars

\* C24 (amended): with no existing payment, initiatePayment of a free order
\* (tenant without required payment, or total zero) creates one COMPLETED
\* payment of provider 'free', sets the order ACCEPTED and calls no provider;
\* of any other order it creates a PENDING payment holding the provider's
\* order id and leaves the order's status alone when the tenant's provider is
\* implemented and its createOrder returns, and otherwise fails having created
\* no payment and changed no order
C24_InitiateCreates ==
  [][\A p \in PayProcs :
       LET id == preq'[p].orderId
           name == organizations[orders[id].organizationId].paymentProvider
       IN /\ (/\ Starts(p, "initiate") /\ id \in 1..Len(orders)
              /\ payments[id].status = "NONE") =>
                 /\ dbVars' = dbVars
                 /\ IF TenantFree(id) THEN preq'[p].pc = "freeCreate"
                    ELSE IF name = "stripe"
                    THEN preq'[p].pc = "failed" /\ preq'[p].err = "Internal"
                    ELSE preq'[p].pc = "provCreate"
          /\ (StepsFrom(p, "freeCreate") /\ payments[id].status = "NONE") =>
                 /\ preq'[p].pc = "freeAccept"
                 /\ payments'[id].status = "COMPLETED"
                 /\ payments'[id].provider = "free"
                 /\ payments'[id].amount = orders[id].total
                 /\ OthersKept(id)
                 /\ orders' = orders /\ provider' = provider
          /\ StepsFrom(p, "freeAccept") =>
                 /\ preq'[p].pc = "done"
                 /\ orders'[id].status = "ACCEPTED"
                 /\ payments' = payments /\ provider' = provider
          /\ StepsFrom(p, "provCreate") =>
                 /\ orders' = orders /\ payments' = payments
                 /\ \/ /\ preq'[p].pc = "payCreate"
                       /\ IF name = "razorpay"
                            THEN /\ Len(provider'.orders) = Len(provider.orders) + 1
                                 /\ preq'[p].extId = <<"rzp", Len(provider'.orders)>>
                                 /\ provider'.orders[Len(provider'.orders)] =
                                      [receipt |-> orders[id].orderNumber,
                                       amount |-> orders[id].total * 100]
                            ELSE /\ provider' = provider
                                 /\ preq'[p].extId = <<"free", orders[id].orderNumber>>
                    \/ /\ preq'[p].pc = "failed" /\ preq'[p].err = "Internal"
                       /\ provider' = provider
          /\ (StepsFrom(p, "payCreate") /\ payments[id].status = "NONE") =>
                 /\ preq'[p].pc = "done"
                 /\ payments'[id].status = "PENDING"
                 /\ payments'[id].externalOrderId = preq[p].extId
                 /\ payments'[id].amount = orders[id].total
                 /\ OthersKept(id)
                 /\ orders' = orders /\ provider' = provider]_vars

\* initiatePayment has created the PENDING payment of an order that must be
\* paid, with the order id the provider issued, and the order is still PENDING
C24_Witness ==
  \E p \in PayProcs :
     /\ preq[p].pc = "done" /\ preq[p].op = "initiate" /\ preq[p].payAmount > 0
     /\ payments[preq[p].orderId].status = "PENDING"
     /\ payments[preq[p].orderId].externalOrderId = <<"rzp", 1>>
     /\ orders[preq[p].orderId].status = "PENDING"

\* C25: a verifyPayment whose signature check fails marks the payment FAILED,
\* fails with InvalidState and leaves the order as it was; a verifyPayment of an
\* absent order or of an order without payment fails NotFound and changes
\* nothing
C25_VerifyFailure ==
  [][\A p \in PayProcs :
       LET id == preq'[p].orderId
       IN /\ (/\ Starts(p, "verify")
              /\ (id \notin 1..Len(orders) \/ payments[id].status = "NONE")) =>
                 /\ preq'[p].pc = "failed" /\ preq'[p].err = "NotFound"
                 /\ dbVars' = dbVars
          /\ (Starts(p, "verify") /\ preq'[p].pc # "failed") =>
                 /\ dbVars' = dbVars
                 /\ preq'[p].pc = IF preq'[p].valid THEN "markCompleted" ELSE "markFailed"
          /\ StepsFrom(p, "markFailed") =>
                 /\ preq'[p].pc = "failed" /\ preq'[p].err = "BadRequest"
                 /\ payments'[id].status = "FAILED"
                 /\ OthersKept(id)
                 /\ orders' = orders
          /\ (StepsFrom(p, "failed") /\ preq[p].op = "verify") =>
                 preq'[p].pc = "idle" /\ dbVars' = dbVars]_vars

\* a verifyPayment with a wrong signature has failed: the payment is FAILED and
\* the order is still PENDING
C25_Witness ==
  \E p \in PayProcs :
     /\ preq[p].pc = "failed" /\ preq[p].op = "verify" /\ preq[p].err = "BadRequest"
     /\ payments[preq[p].orderId].status = "FAILED"
     /\ orders[preq[p].orderId].status = "PENDING"

\* C26: the payment of an order that must be paid (tenant requires payment,
\* total above zero) is COMPLETED only by a verifyPayment whose signature is the
\* HMAC of orderReference|paymentId under the server-held secret
C26_CompletedOnlyVerified ==
  \A id \in 1..Len(orders) :
     (/\ organizations[orders[id].organizationId].requirePayment
      /\ orders[id].total > 0
      /\ payments[id].status = "COMPLETED") =>
        \E e \in ExtIds : payments[id].signature = Hmac(e, payments[id].externalId, keySecret)

\* C27: the refunded amount of a payment never exceeds the payment's amount,
\* the payment is REFUNDED only with the refunded amount equal to the amount,
\* and PARTIALLY_REFUNDED exactly when 0 < refunded amount < amount
C27_RefundAccounting ==
  \A id \in 1..Len(orders) :
     LET pay == payments[id]
     IN pay.status # "NONE" =>
          /\ pay.refundedAmount <= pay.amount
          /\ pay.status = "REFUNDED" => pay.refundedAmount = pay.amount
          /\ pay.status = "PARTIALLY_REFUNDED" <=>
               (0 < pay.refundedAmount /\ pay.refundedAmount < pay.amount)

\* C28: after a first refund of half the amount (the payment is
\* PARTIALLY_REFUNDED with half the amount refunded) the second refund of the
\* other half is accepted, and it leaves the payment REFUNDED with the whole
\* amount refunded
C28_HalfTwice ==
  [][\A p \in PayProcs :
       LET id == preq'[p].orderId
       IN /\ (/\ Starts(p, "refund") /\ id \in 1..Len(orders)
              /\ payments[id].status = "PARTIALLY_REFUNDED"
              /\ payments[id].amount = 2 * preq'[p].amount
              /\ payments[id].refundedAmount = preq'[p].amount) =>
                 preq'[p].pc = "provRefund"
          /\ (/\ StepsFrom(p, "refundWrite")
              /\ preq[p].payAmount = 2 * preq[p].amount
              /\ preq[p].refunded = preq[p].amount) =>
                 /\ payments'[id].status = "REFUNDED"
                 /\ payments'[id].refundedAmount = payments'[id].amount]_vars

\* C29: refund fails with InvalidState unless the order has a COMPLETED
\* payment, and the failing call asks the provider for no refund and leaves
\* every payment (status, refunded amount, refund time) as it was
C29_RefundNeedsCompleted ==
  [][\A p \in PayProcs :
       LET id == preq'[p].orderId
       IN /\ (/\ Starts(p, "refund")
              /\ (id \notin 1..Len(orders) \/ payments[id].status # "COMPLETED")) =>
                 /\ preq'[p].pc = "failed" /\ preq'[p].err = "BadRequest"
                 /\ dbVars' = dbVars
          /\ (Starts(p, "refund") /\ preq'[p].pc = "provRefund") =>
                 payments[id].status = "COMPLETED"
          /\ (StepsFrom(p, "failed") /\ preq[p].op = "refund") =>
                 preq'[p].pc = "idle" /\ dbVars' = dbVars]_vars

\* a refund was refused on a payment that is already REFUNDED, after a refund
\* that the provider executed
C29_Witness ==
  \E p \in PayProcs :
     /\ preq[p].pc = "failed" /\ preq[p].op = "refund" /\ preq[p].err = "BadRequest"
     /\ preq[p].orderId \in 1..Len(orders)
     /\ payments[preq[p].orderId].status = "REFUNDED"
     /\ Len(provider.refunds) = 1

\* C30: close of an existing session fails Forbidden when a user id is given
\* that is not the session's owner, and then changes neither the session row
\* nor the cache; otherwise it deletes the session's cache entry and sets the
\* row's status to CLOSED
C30_CloseOwnerOnly ==
  [][\A p \in CloseProcs :
       LET id == xreq'[p].sid
           uid == xreq'[p].userId
       IN /\ (/\ xreq[p].pc = "idle" /\ xreq'[p].pc # "idle"
              /\ id \in 1..Len(sessions)) =>
                 /\ dbVars' = dbVars
                 /\ IF uid # NoUser /\ sessions[id].userId # uid
                      THEN xreq'[p].pc = "failed" /\ xreq'[p].err = "Forbidden"
                      ELSE xreq'[p].pc = "del"
          /\ (xreq[p].pc = "failed" /\ xreq'[p] # xreq[p]) =>
                 xreq'[p].pc = "idle" /\ dbVars' = dbVars
          /\ (xreq[p].pc = "del" /\ xreq'[p] # xreq[p]) =>
                 /\ xreq'[p].pc = "update"
                 /\ cache'[id] = NULL
                 /\ sessions' = sessions
          /\ (xreq[p].pc = "update" /\ xreq'[p] # xreq[p]) =>
                 /\ xreq'[p].pc = "done"
                 /\ sessions'[id].status = "CLOSED"
                 /\ cache' = cache]_vars

\* a user who does not own the session was refused, and the session is still
\* ACTIVE and cached
C30_Witness ==
  \E p \in CloseProcs :
     /\ xreq[p].pc = "failed" /\ xreq[p].err = "Forbidden"
     /\ sessions[xreq[p].sid].userId = "u1" /\ xreq[p].userId = "u2"
     /\ sessions[xreq[p].sid].status = "ACTIVE"
     /\ cache[xreq[p].sid] # NULL

(* ----------------- properties: stock, coupons, tenants ----------------- *)
\* C31: when an order creation has succeeded, with orders placed one after the
\* other, the units ordered of every finite-stock item (summed over all lines
\* of the item) were in stock, and the item's stock has gone down by exactly
\* those units
C31_LinesWithinStock ==
  \A p \in CreateProcs :
     creq[p].pc = "done" =>
        \A i \in ItemIds :
           Finite(i) => /\ Ordered(i) <= stock0[i]
                        /\ items[i].stock = stock0[i] - Ordered(i)

\* the orders that have coupon c applied
CouponOrders(c) == {o \in 1..Len(orders) : orders[o].couponId = c}

\* C32: the usage counter of a coupon with a usage limit never exceeds the
\* limit, and no more orders than the limit carry the coupon, however the
\* concurrent order creations interleave
C32_UsageLimitKept ==
  \A c \in CouponIds :
     coupons[c].usageLimit # NULL =>
        /\ coupons[c].usageCount <= coupons[c].usageLimit
        /\ Cardinality(CouponOrders(c)) <= coupons[c].usageLimit

\* CouponService.validate accepts the coupon row for the amount and the user
\* (active, inside its validity window, usage left, amount at least the minimum)
ValidateAccepts(coupon, c, amount, uid) ==
  /\ coupon.isActive
  /\ ~(coupon.validFrom > now)
  /\ ~(coupon.validUntil # NULL /\ coupon.validUntil < now)
  /\ ~(coupon.usageLimit # NULL /\ coupon.usageCount >= coupon.usageLimit)
  /\ ~(uid # NoUser /\ coupon.perUserLimit # NULL /\ UserUsage(c, uid) >= coupon.perUserLimit)
  /\ ~(coupon.minOrderAmount # NULL /\ amount < coupon.minOrderAmount)

\* C33: for the coupon row and subtotal it sees, OrderService.create applies
\* the coupon exactly when validate accepts it for that amount, and stores the
\* discount validate returns
C33_CreateAgreesWithValidate ==
  [][\A p \in CreateProcs :
       (creq[p].pc = "coupon" /\ creq'[p].pc # "coupon" /\ creq[p].couponCode # NoCode) =>
          LET r == creq[p]
              found == {c \in CouponIds : /\ coupons[c].code = toUpperCase(r.couponCode)
                                          /\ coupons[c].organizationId = r.org}
              applied == creq'[p].pc = "count" /\ creq'[p].couponId # ""
          IN /\ found = {} => ~applied
             /\ \A c \in found :
                  /\ applied <=> ValidateAccepts(coupons[c], c, r.subtotal, r.userId)
                  /\ applied =>
                       creq'[p].discount = ValidateDiscount(coupons[c], r.subtotal)]_vars

(* ------------------ properties: concurrent payments ------------------- *)
\* the orders the provider has created for order o (its receipt is the order
\* number)
ProviderOrders(o) ==
  {k \in 1..Len(provider.orders) : provider.orders[k].receipt = orders[o].orderNumber}

\* C34: however concurrent initiatePayment calls for an order interleave, the
\* provider is asked for at most one order for it, and the calls that have
\* returned successfully have returned the same external reference
C34_OneProviderOrder ==
  /\ \A o \in 1..Len(orders) : Cardinality(ProviderOrders(o)) <= 1
  /\ \A p, q \in PayCallers :
        (/\ preq[p].pc = "done" /\ preq[p].op = "initiate"
         /\ preq[q].pc = "done" /\ preq[q].op = "initiate"
         /\ preq[p].orderId = preq[q].orderId) => preq[p].extId = preq[q].extId

\* the amount of the refunds the provider has executed for order id (a refund
\* without amount is one of the whole payment)
RefundExecuted(id) ==
  SumSeq([k \in 1..Len(provider.refunds) |->
            IF provider.refunds[k].orderId # id THEN 0
            ELSE IF provider.refunds[k].amount = NULL THEN payments[id].amount
            ELSE provider.refunds[k].amount])

\* a refund of order id is between its provider call and its payment update
RefundInFlight(id) ==
  \E p \in PayCallers :
     preq[p].op = "refund" /\ preq[p].orderId = id /\ preq[p].pc = "refundWrite"

\* C37: once the refund calls on a payment have written, the refunded amount
\* stored with the payment is the sum of the refunds the provider executed, and
\* it is at most the payment's amount
C37_RefundsAccumulate ==
  \A id \in 1..Len(orders) :
     ~RefundInFlight(id) =>
        /\ payments[id].refundedAmount = RefundExecuted(id)
        /\ payments[id].refundedAmount <= payments[id].amount

\* C35: a payment made through the hosted provider is COMPLETED only with a
\* signature over the external order id stored with that payment
C35_SignatureCoversOwnOrder ==
  \A id \in 1..Len(orders) :
     (payments[id].status = "COMPLETED" /\ payments[id].provider = "razorpay") =>
        payments[id].signature =
          Hmac(payments[id].externalOrderId, payments[id].externalId, keySecret)

\* C36: no step takes a COMPLETED payment to FAILED, and none takes a
\* PARTIALLY_REFUNDED or REFUNDED payment back to COMPLETED
C36_StatusNeverRegresses ==
  [][\A o \in 1..Len(orders) :
       /\ payments[o].status = "COMPLETED" => payments'[o].status # "FAILED"
       /\ payments[o].status \in {"PARTIALLY_REFUNDED", "REFUNDED"} =>
            payments'[o].status # "COMPLETED"]_vars

\* C38: every line of a persisted order is for an item of the order's
\* organization, and the coupon applied to it is a coupon of that organization
C38_OrderWithinTenant ==
  \A o \in 1..Len(orders) :
     /\ \A k \in 1..Len(orders[o].items) :
          itemOrg[orders[o].items[k].itemId] = orders[o].organizationId
     /\ orders[o].couponId # "" =>
          coupons[orders[o].couponId].organizationId = orders[o].organizationId

\* C39: a step changes the availability flag of an item only by turning it off
\* with the stock at 0, and changes nothing of an item with unlimited stock
C39_AvailabilityOnlyOff ==
  [][\A i \in ItemIds :
       /\ items'[i].isAvailable # items[i].isAvailable =>
            ~items'[i].isAvailable /\ items'[i].stock = 0
       /\ items[i].stock = NULL =>
            /\ items'[i].stock = NULL
            /\ items'[i].isAvailable = items[i].isAvailable]_vars

====
